---- MODULE Spec2Model ----
(***************************************************************************)
(* Model of the bullet drag controller (CustomBulletDragPlugin).           *)
(*                                                                         *)
(* Text is modelled as sequences of one-character strings so that trim,    *)
(* startsWith, the block-id regular expressions and the reference string   *)
(* are computed the way the code computes them.  The host application      *)
(* (workspace, editor, canvas views, DOM) is modelled only as far as the   *)
(* handlers read or write it.                                              *)
(***************************************************************************)
EXTENDS Integers, Sequences, FiniteSets, TLC

(***************************************************************************)
(* Bounds of the model.                                                    *)
(***************************************************************************)
\* Number of presses that may create a Drag Session in one behaviour.
MaxGestures == 2

(***************************************************************************)
(* Program constants.                                                      *)
(***************************************************************************)
MAX_TEXT_LENGTH == 30
DRAG_THRESHOLD == 5
\* Offset of the preview from the pointer (e.clientX + 10, e.clientY + 10).
PreviewOffset == 10

(***************************************************************************)
(* Values standing for JavaScript's NaN, null and "no element".            *)
(***************************************************************************)
NaN == -1000
NullPos == -1
NoEl == <<>>
NoFile == [name |-> <<>>, extension |-> ""]
NoDrag == [present |-> FALSE]

IsFinite(v) == v # NaN

(***************************************************************************)
(* Strings.                                                                *)
(***************************************************************************)
Whitespace == {" "}
Letters == {"a", "b", "k", "x", "A", "B", "C", "m", "d", "c", "n", "v", "s", "_"}
Digits == {"0", "1", "2", "3", "4", "5", "6", "7", "8", "9"}
\* \w of a JavaScript regular expression
WordChars == Letters \cup Digits
\* [\w-]
WordOrDash == WordChars \cup {"-"}

RECURSIVE trimStart(_)
trimStart(s) ==
    IF s # <<>> /\ Head(s) \in Whitespace THEN trimStart(Tail(s)) ELSE s

RECURSIVE trimEnd(_)
trimEnd(s) ==
    IF s # <<>> /\ s[Len(s)] \in Whitespace
    THEN trimEnd(SubSeq(s, 1, Len(s) - 1))
    ELSE s

trim(s) == trimEnd(trimStart(s))

startsWith(s, p) == Len(s) >= Len(p) /\ SubSeq(s, 1, Len(p)) = p

endsWith(s, p) ==
    Len(s) >= Len(p) /\ SubSeq(s, Len(s) - Len(p) + 1, Len(s)) = p

\* text.match(/\s\^(C+)$/)[1] for a character class C; <<>> when there is no
\* match (the captured group is never empty).
matchBlockId(text, class) ==
    LET starts == {i \in 1..(Len(text) - 2) :
                      /\ text[i] \in Whitespace
                      /\ text[i + 1] = "^"
                      /\ \A j \in (i + 2)..Len(text) : text[j] \in class}
    IN IF starts = {} THEN <<>>
       ELSE LET i == CHOOSE k \in starts : \A m \in starts : k <= m
            IN SubSeq(text, i + 2, Len(text))

\* bulletTextRaw.replace(/^-\s*/, "")
stripBulletMarker(s) ==
    IF s # <<>> /\ Head(s) = "-" THEN trimStart(Tail(s)) ELSE s

\* A truncation that keeps maxLen characters before the ellipsis.
truncateText_keepsMaxLen(text, maxLen) ==
    IF Len(text) <= maxLen
    THEN text
    ELSE SubSeq(text, 1, maxLen) \o <<".", ".", ".">>

truncateText(text, maxLen) ==
    IF Len(text) <= maxLen
    THEN text
    ELSE SubSeq(text, 1, maxLen - 3) \o <<".", ".", ".">>

\* A reference built from the file's full name.
stripMdSuffix_keepsName(name) == name

\* file.name.replace(/\.md$/, "")
stripMdSuffix(name) ==
    IF endsWith(name, <<".", "m", "d">>)
    THEN SubSeq(name, 1, Len(name) - 3)
    ELSE name

\* `![[${fileNameNoExt}#^${id}]]`
linkReference(fileNameNoExt, id) ==
    <<"!", "[", "[">> \o fileNameNoExt \o <<"#", "^">> \o id \o <<"]", "]">>

\* `${Date.now()}-${Math.floor(Math.random() * 10000)}`: decimal digits, a
\* dash, decimal digits.  The clock and the random source are inputs.
generateBulletId(now, rnd) == now \o <<"-">> \o rnd

\* The clock advances from one gesture to the next: Date.now() during the
\* g-th gesture reads as the digit of g.
DateNow(g) == << <<"0", "1", "2", "3", "4", "5", "6", "7", "8", "9">>[g + 1] >>
\* Math.floor(Math.random() * 10000)
Randoms == {<<"7">>}

\* lineText.trimEnd() + ` ^${id}`
newLineText(lineText, id) == trimEnd(lineText) \o <<" ", "^">> \o id

(***************************************************************************)
(* The host: files, editors, line elements, canvas views, geometry.        *)
(***************************************************************************)
NoteA == [name |-> <<"A", ".", "m", "d">>, extension |-> "md"]
NoteB == [name |-> <<"B", ".", "m", "d">>, extension |-> "md"]
Board == [name |-> <<"C", ".", "c", "a", "n", "v", "a", "s">>,
          extension |-> "canvas"]
Notes == {NoteA, NoteB}
Files == Notes \cup {Board}

\* The documents as the editors hold them when the plugin is constructed.
InitialDocs ==
    (NoteA :> << <<"-", " ", "a">>, <<"x">> >>) @@
    (NoteB :> << <<" ", "-", " ", "b", " ", "^", "k">> >>)

\* Texts the user may give the source line of a gesture by editing it.
EditTexts == { <<"-", " ", "c", " ", "^", "k", " ">> }

\* The .cm-line element showing line n (0-based) of a note.
LineEl(note, n) == <<note.name, n>>
LineEls == {LineEl(f, n) : f \in Notes, n \in 0..1} \ {LineEl(NoteB, 1)}

\* Screen layout: the editor pane covers x in 0..EditorRight, one text line
\* per LineHeight pixels; the canvas views lie to its right.
EditorRight == 9
LineHeight == 4
CanvasLeaves ==
    << [rect |-> [left |-> 10, right |-> 20, top |-> 0, bottom |-> 10],
        hasPosFromEvt |-> TRUE, panX |-> 100, panY |-> 200],
       [rect |-> [left |-> 20, right |-> 30, top |-> 0, bottom |-> 10],
        hasPosFromEvt |-> FALSE, panX |-> 0, panY |-> 0] >>

\* Pointer positions a press may carry: on line 0, on line 1, right of the
\* editor, and a non-finite one.
PressPoints == { <<0, 0>>, <<3, 4>>, <<15, 4>>, <<NaN, 4>> }

\* Pointer positions a move may carry: one exactly DRAG_THRESHOLD away from
\* the press position <<0, 0>>, a far one, and a non-finite one.
MovePoints == { <<3, 4>>, <<15, 4>>, <<NaN, 4>> }

\* Pointer positions a release may carry: in the editor (outside every
\* canvas), on the common edge of both canvases, in the second canvas only,
\* and a non-finite one.
DropPoints == { <<0, 0>>, <<20, 4>>, <<25, 4>>, <<NaN, 4>> }

\* Offset of the first character of line n (1-based) in the document.
RECURSIVE lineStart(_, _)
lineStart(doc, n) ==
    IF n <= 1 THEN 0 ELSE lineStart(doc, n - 1) + Len(doc[n - 1]) + 1

\* cm.posAtCoords({x, y}): a character offset, or null outside the content.
posAtCoords(doc, x, y) ==
    LET row == (y \div LineHeight) + 1
    IN IF x >= 0 /\ x <= EditorRight /\ y >= 0 /\ row <= Len(doc)
       THEN lineStart(doc, row)
            + (IF x <= Len(doc[row]) THEN x ELSE Len(doc[row]))
       ELSE NullPos

\* cm.state.doc.lineAt(pos).number (1-based)
lineAt(doc, pos) ==
    CHOOSE n \in 1..Len(doc) :
        lineStart(doc, n) <= pos /\ pos <= lineStart(doc, n) + Len(doc[n])

\* A bounding box test that leaves the edges out.
rectContains_exclusive(rect, x, y) ==
    x > rect.left /\ x < rect.right /\ y > rect.top /\ y < rect.bottom

\* rect contains the point, all four edges inclusive
rectContains(rect, x, y) ==
    x >= rect.left /\ x <= rect.right /\ y >= rect.top /\ y <= rect.bottom

\* A lookup that falls back to the first canvas when none is under the point.
findCanvasLeaf_orFirst(x, y) ==
    LET hits == {i \in 1..Len(CanvasLeaves) :
                    rectContains(CanvasLeaves[i].rect, x, y)}
    IN IF hits = {} THEN 1
       ELSE CHOOSE i \in hits : \A j \in hits : i <= j

\* canvasLeaves.find(...): index of the first leaf under the point, 0 if none
findCanvasLeaf(x, y) ==
    LET hits == {i \in 1..Len(CanvasLeaves) :
                    rectContains(CanvasLeaves[i].rect, x, y)}
    IN IF hits = {} THEN 0
       ELSE CHOOSE i \in hits : \A j \in hits : i <= j

\* canvas.posFromEvt(e): the host maps the screen position into the canvas's
\* own coordinates; ok = FALSE is a host that returns non-finite values.
posFromEvt(leaf, x, y, ok) ==
    IF ok
    THEN [x |-> x - leaf.rect.left + leaf.panX,
          y |-> y - leaf.rect.top + leaf.panY]
    ELSE [x |-> NaN, y |-> NaN]

\* A comparison that lets a move of exactly the threshold start the drag.
exceedsThreshold_inclusive(dx, dy) ==
    dx * dx + dy * dy >= DRAG_THRESHOLD * DRAG_THRESHOLD

\* Math.sqrt(dx * dx + dy * dy) > DRAG_THRESHOLD, on integer coordinates
exceedsThreshold(dx, dy) ==
    dx * dx + dy * dy > DRAG_THRESHOLD * DRAG_THRESHOLD

(***************************************************************************)
(* State.                                                                  *)
(***************************************************************************)
VARIABLES
    phase,       \* "constructed", "loaded" (listeners registered), "unloaded"
    dragState,   \* this.dragState: NoDrag (null) or the DragState record
    body,        \* preview elements attached to document.body: id -> element
    style,       \* style of each line element: [cursor, userSelect]
    docs,        \* text of each note's editor: note -> sequence of lines
    activeFile,  \* the workspace's active file, NoFile if none
    cmAvailable, \* does the host's Editor expose its CodeMirror view (.cm)
    nodes,       \* text nodes created on the canvases, in creation order
    pending,     \* onMouseUp calls suspended at their await, oldest first
    evt,         \* the step taken last: its inputs and what it did to the event
    gestures     \* Drag Sessions created so far

vars == <<phase, dragState, body, style, docs, activeFile, cmAvailable,
          nodes, pending, evt, gestures>>

NoPreview == 0

\* The record of a step: the event as far as its handler examined it, what
\* the handler found in this.dragState, the answers of the host calls made
\* while handling it, and the event's flags after it.  A field the handler
\* returned without examining, and a host call it did not make, are
\* recorded with the values Step gives them.  For the hover handlers found
\* is the cursor the line under the pointer had; message is the message of
\* an error event; replaced is the text that a successful setLine call of
\* the step replaced in the editor.
Event(type, alt, x, y, target, found, writeOk, posOk, prevented, stopped) ==
    [type |-> type, altKey |-> alt, clientX |-> x, clientY |-> y,
     target |-> target, found |-> found,
     writeOk |-> writeOk, posOk |-> posOk,
     defaultPrevented |-> prevented, propagationStopped |-> stopped,
     message |-> <<>>, replaced |-> <<>>]

Step(type) ==
    Event(type, FALSE, 0, 0, NoEl, "absent", TRUE, TRUE, FALSE, FALSE)

\* What a handler finds in this.dragState
session ==
    IF ~dragState.present THEN "absent"
    ELSE IF dragState.dragging THEN "dragging"
    ELSE "armed"

seen(examined, v, unexamined) == IF examined THEN v ELSE unexamined

DefaultStyle == [cursor |-> "", userSelect |-> ""]

Init ==
    /\ phase = "constructed"
    /\ dragState = NoDrag
    /\ body = <<>>
    /\ style = [el \in LineEls |-> DefaultStyle]
    /\ docs = InitialDocs
    /\ activeFile \in Notes
    /\ cmAvailable \in BOOLEAN
    /\ nodes = <<>>
    /\ pending = <<>>
    /\ evt = Step("none")
    /\ gestures = 0

(***************************************************************************)
(* Host queries.                                                           *)
(***************************************************************************)
\* this.app.workspace.getActiveViewOfType(MarkdownView): the view of the
\* active file when that is a note; its editor is identified with the note.
hasMarkdownView == activeFile \in Notes

\* editor.getLine(n), n 0-based
getLine(note, n) == docs[note][n + 1]

\* The element the pointer is over: the .cm-line of the line under the
\* point in the active note, or an element outside every .cm-line.
TargetsAt(x, y) ==
    {NoEl} \cup
    (IF hasMarkdownView /\ IsFinite(x) /\ IsFinite(y)
        /\ posAtCoords(docs[activeFile], x, y) # NullPos
     THEN {LineEl(activeFile,
                  lineAt(docs[activeFile],
                         posAtCoords(docs[activeFile], x, y)) - 1)}
     ELSE {})

(***************************************************************************)
(* onload / onunload                                                       *)
(***************************************************************************)
\* The listeners onload registers: target, event type, capture flag and
\* handler.
addedListeners ==
    {<<"document", "mousedown", TRUE, "onMouseDown">>,
     <<"document", "mousemove", TRUE, "onMouseMove">>,
     <<"document", "mouseup", TRUE, "onMouseUp">>,
     <<"body", "mouseover", FALSE, "onMouseOverBullet">>,
     <<"body", "mouseout", FALSE, "onMouseOutBullet">>,
     <<"window", "error", TRUE, "globalErrorHandler">>}

\* A teardown that names the mousedown listener with the wrong capture flag.
removedListeners_mousedownBubbling ==
    {<<"document", "mousedown", FALSE, "onMouseDown">>,
     <<"document", "mousemove", TRUE, "onMouseMove">>,
     <<"document", "mouseup", TRUE, "onMouseUp">>,
     <<"body", "mouseover", FALSE, "onMouseOverBullet">>,
     <<"body", "mouseout", FALSE, "onMouseOutBullet">>,
     <<"window", "error", TRUE, "globalErrorHandler">>}

\* The listeners onunload names in its removeEventListener calls.
removedListeners ==
    {<<"document", "mousedown", TRUE, "onMouseDown">>,
     <<"document", "mousemove", TRUE, "onMouseMove">>,
     <<"document", "mouseup", TRUE, "onMouseUp">>,
     <<"body", "mouseover", FALSE, "onMouseOverBullet">>,
     <<"body", "mouseout", FALSE, "onMouseOutBullet">>,
     <<"window", "error", TRUE, "globalErrorHandler">>}

\* The listeners registered in a phase of the plugin's life: a listener is
\* removed only by a call that names its target, type, capture flag and
\* handler.
listeners(ph) ==
    IF ph = "constructed" THEN {}
    ELSE IF ph = "loaded" THEN addedListeners
    ELSE addedListeners \ removedListeners

\* Is the handler called for events of the type at the target
listening(target, type, handler) ==
    \E l \in listeners(phase) :
        l[1] = target /\ l[2] = type /\ l[4] = handler

onload ==
    /\ phase = "constructed"
    /\ phase' = "loaded"
    /\ evt' = Step("load")
    /\ UNCHANGED <<dragState, body, style, docs, activeFile, cmAvailable,
                   nodes, pending, gestures>>

\* A removal that fails and leaves the element attached.
removeChild_fails(b, el) == b

\* document.body.removeChild(el); a throw is caught by the callers
removeChild(b, el) == [i \in (DOMAIN b) \ {el} |-> b[i]]

\* A teardown that only removes the listeners.
onunload_listenersOnly ==
    /\ phase = "loaded"
    /\ phase' = "unloaded"
    /\ evt' = [Step("unload") EXCEPT !.found = session]
    /\ UNCHANGED <<dragState, body, style, docs, activeFile, cmAvailable,
                   nodes, pending, gestures>>

onunload ==
    /\ phase = "loaded"
    /\ phase' = "unloaded"
    /\ body' = IF dragState.present /\ dragState.previewEl # NoPreview
               THEN removeChild(body, dragState.previewEl)
               ELSE body
    /\ dragState' = NoDrag
    /\ evt' = [Step("unload") EXCEPT !.found = session]
    /\ UNCHANGED <<style, docs, activeFile, cmAvailable, nodes, pending,
                   gestures>>

(***************************************************************************)
(* onMouseDown                                                             *)
(***************************************************************************)
\* A press handler that does not look at the modifier key.
pressedLine_ignoresAlt(alt, x, y) ==
    IF ~IsFinite(x) \/ ~IsFinite(y) THEN NullPos
    ELSE IF ~hasMarkdownView THEN NullPos
    ELSE IF ~cmAvailable THEN NullPos
    ELSE IF posAtCoords(docs[activeFile], x, y) = NullPos THEN NullPos
    ELSE lineAt(docs[activeFile], posAtCoords(docs[activeFile], x, y)) - 1

\* The line a press at (x, y) selects, as onMouseDown computes it: 0-based
\* line number, or NullPos when a qualification step fails before it.
pressedLine(alt, x, y) ==
    IF ~alt THEN NullPos
    ELSE IF ~IsFinite(x) \/ ~IsFinite(y) THEN NullPos
    ELSE IF ~hasMarkdownView THEN NullPos
    ELSE IF ~cmAvailable THEN NullPos
    ELSE IF posAtCoords(docs[activeFile], x, y) = NullPos THEN NullPos
    ELSE lineAt(docs[activeFile], posAtCoords(docs[activeFile], x, y)) - 1

\* A press handler that accepts every line of the note.
bulletPressed_anyLine(alt, x, y) == pressedLine(alt, x, y) # NullPos

\* Does the press select a line whose trimmed text starts with the marker
bulletPressed(alt, x, y) ==
    /\ pressedLine(alt, x, y) # NullPos
    /\ startsWith(trim(getLine(activeFile, pressedLine(alt, x, y))),
                  <<"-">>)

\* Does the press create a Drag Session
qualifies(alt, x, y, target) ==
    /\ bulletPressed(alt, x, y)
    /\ target # NoEl

\* A press handler that intercepts every press with the modifier, whether
\* or not the press goes on to create a session.
onMouseDown_interceptsBeforeQualifying(alt, x, y, target) ==
    /\ listening("document", "mousedown", "onMouseDown")
    /\ IF qualifies(alt, x, y, target)
       THEN /\ gestures < MaxGestures
            /\ style' = [style EXCEPT ![target] =
                            [cursor |-> "grab", userSelect |-> "none"]]
            /\ dragState' =
                  [present |-> TRUE,
                   initialX |-> x, initialY |-> y,
                   dragging |-> FALSE,
                   sourceEl |-> target,
                   previewEl |-> NoPreview,
                   editor |-> activeFile,
                   lineNumber |-> pressedLine(alt, x, y),
                   rawLineText |-> getLine(activeFile, pressedLine(alt, x, y))]
            /\ gestures' = gestures + 1
            /\ evt' = Event("mousedown", alt, x, y, target, "absent",
                            TRUE, TRUE, TRUE, TRUE)
       ELSE /\ evt' = Event("mousedown", alt,
                            seen(alt, x, 0), seen(alt, y, 0),
                            seen(bulletPressed(alt, x, y), target, NoEl),
                            "absent", TRUE, TRUE, alt, alt)
            /\ UNCHANGED <<dragState, style, gestures>>
    /\ UNCHANGED <<phase, body, docs, activeFile, cmAvailable, nodes,
                   pending>>

onMouseDown(alt, x, y, target) ==
    /\ listening("document", "mousedown", "onMouseDown")
    /\ IF qualifies(alt, x, y, target)
       THEN /\ gestures < MaxGestures
            /\ style' = [style EXCEPT ![target] =
                            [cursor |-> "grab", userSelect |-> "none"]]
            /\ dragState' =
                  [present |-> TRUE,
                   initialX |-> x, initialY |-> y,
                   dragging |-> FALSE,
                   sourceEl |-> target,
                   previewEl |-> NoPreview,
                   editor |-> activeFile,
                   lineNumber |-> pressedLine(alt, x, y),
                   rawLineText |-> getLine(activeFile, pressedLine(alt, x, y))]
            /\ gestures' = gestures + 1
            /\ evt' = Event("mousedown", alt, x, y, target, "absent",
                            TRUE, TRUE, TRUE, TRUE)
       ELSE /\ evt' = Event("mousedown", alt,
                            seen(alt, x, 0), seen(alt, y, 0),
                            seen(bulletPressed(alt, x, y), target, NoEl),
                            "absent", TRUE, TRUE, FALSE, FALSE)
            /\ UNCHANGED <<dragState, style, gestures>>
    /\ UNCHANGED <<phase, body, docs, activeFile, cmAvailable, nodes,
                   pending>>

(***************************************************************************)
(* onMouseMove                                                             *)
(***************************************************************************)
\* document.createElement: an element not yet in use
newElement == CHOOSE i \in 1..(Cardinality(DOMAIN body) + 1) : i \notin DOMAIN body

\* The preview pill as created: bullet glyph and the truncated line text,
\* not yet positioned.
createPreview(rawLineText) ==
    [text |-> truncateText(stripBulletMarker(trim(rawLineText)),
                           MAX_TEXT_LENGTH),
     left |-> NaN, top |-> NaN]

\* A move handler that builds a preview on every move beyond the threshold.
startsDrag_everyFarMove(x, y) ==
    exceedsThreshold(x - dragState.initialX, y - dragState.initialY)

\* !this.dragState.dragging && distance > DRAG_THRESHOLD
startsDrag(x, y) ==
    /\ ~dragState.dragging
    /\ exceedsThreshold(x - dragState.initialX, y - dragState.initialY)

\* A move handler that returns, as the press handler does, when the
\* modifier is not held.
onMouseMove_needsModifier(alt, x, y) ==
    /\ listening("document", "mousemove", "onMouseMove")
    /\ IF ~dragState.present
       THEN /\ evt' = Step("mousemove")
            /\ UNCHANGED <<dragState, body, style>>
       ELSE IF ~alt \/ ~IsFinite(x) \/ ~IsFinite(y)
       THEN /\ evt' = Event("mousemove", alt, x, y, NoEl, session,
                            TRUE, TRUE, FALSE, FALSE)
            /\ UNCHANGED <<dragState, body, style>>
       ELSE LET starts == startsDrag(x, y)
                ds1 == IF starts
                       THEN [dragState EXCEPT !.dragging = TRUE,
                                              !.previewEl = newElement]
                       ELSE dragState
                body1 == IF starts
                         THEN body @@ (newElement :>
                                         createPreview(dragState.rawLineText))
                         ELSE body
                follows == ds1.dragging /\ ds1.previewEl # NoPreview
            IN /\ dragState' = ds1
               /\ style' = IF starts
                           THEN [style EXCEPT
                                    ![dragState.sourceEl].cursor = "grabbing"]
                           ELSE style
               /\ body' = IF follows
                          THEN [body1 EXCEPT
                                  ![ds1.previewEl].left = x + PreviewOffset,
                                  ![ds1.previewEl].top = y + PreviewOffset]
                          ELSE body1
               /\ evt' = Event("mousemove", alt, x, y, NoEl, session,
                               TRUE, TRUE, follows, FALSE)
    /\ UNCHANGED <<phase, docs, activeFile, cmAvailable, nodes, pending,
                   gestures>>

onMouseMove(alt, x, y) ==
    /\ listening("document", "mousemove", "onMouseMove")
    /\ IF ~dragState.present
       THEN /\ evt' = Step("mousemove")
            /\ UNCHANGED <<dragState, body, style>>
       ELSE IF ~IsFinite(x) \/ ~IsFinite(y)
       THEN /\ evt' = Event("mousemove", alt, x, y, NoEl, session,
                            TRUE, TRUE, FALSE, FALSE)
            /\ UNCHANGED <<dragState, body, style>>
       ELSE LET starts == startsDrag(x, y)
                ds1 == IF starts
                       THEN [dragState EXCEPT !.dragging = TRUE,
                                              !.previewEl = newElement]
                       ELSE dragState
                body1 == IF starts
                         THEN body @@ (newElement :>
                                         createPreview(dragState.rawLineText))
                         ELSE body
                follows == ds1.dragging /\ ds1.previewEl # NoPreview
            IN /\ dragState' = ds1
               /\ style' = IF starts
                           THEN [style EXCEPT
                                    ![dragState.sourceEl].cursor = "grabbing"]
                           ELSE style
               /\ body' = IF follows
                          THEN [body1 EXCEPT
                                  ![ds1.previewEl].left = x + PreviewOffset,
                                  ![ds1.previewEl].top = y + PreviewOffset]
                          ELSE body1
               /\ evt' = Event("mousemove", alt, x, y, NoEl, session,
                               TRUE, TRUE, follows, FALSE)
    /\ UNCHANGED <<phase, docs, activeFile, cmAvailable, nodes, pending,
                   gestures>>

(***************************************************************************)
(* onMouseUp, updateBulletInEditor, addCanvasNode                          *)
(***************************************************************************)
\* Only the first pattern, which a generated id (it has a dash) never matches.
existingBlockId_wordOnly(text) == matchBlockId(text, WordChars)

\* The block id the captured line text already ends with, <<>> if none:
\* first /\s\^(\w+)$/, then /\s\^([\w-]+)$/.
existingBlockId(text) ==
    IF matchBlockId(text, WordChars) # <<>>
    THEN matchBlockId(text, WordChars)
    ELSE matchBlockId(text, WordOrDash)

\* A write that appends the id to the text the line has at the release.
updateBulletInEditor_appendsToCurrentText(d, editor, n, lineText, id, ok) ==
    IF ok
    THEN [d EXCEPT ![editor][n + 1] = newLineText(d[editor][n + 1], id)]
    ELSE d

\* editor.setLine(n, text) inside updateBulletInEditor's try block; ok = FALSE
\* is a setLine that throws, which the catch block swallows.
updateBulletInEditor(d, editor, n, lineText, id, ok) ==
    IF ok
    THEN [d EXCEPT ![editor][n + 1] = newLineText(lineText, id)]
    ELSE d

\* Does addCanvasNode reach canvas.posFromEvt for a drop at (x, y)
callsPosFromEvt(x, y) ==
    /\ findCanvasLeaf(x, y) # 0
    /\ CanvasLeaves[findCanvasLeaf(x, y)].hasPosFromEvt

\* A node creation that validates the mapped position and then places the
\* node at the event's screen coordinates.
addCanvasNode_rawCoordinates(ns, link, x, y, posOk) ==
    IF ~callsPosFromEvt(x, y) THEN ns
    ELSE LET leaf == findCanvasLeaf(x, y)
             coords == posFromEvt(CanvasLeaves[leaf], x, y, posOk)
         IN IF ~IsFinite(coords.x) \/ ~IsFinite(coords.y)
            THEN ns
            ELSE Append(ns, [canvas |-> leaf,
                             pos |-> [x |-> x, y |-> y],
                             text |-> link,
                             size |-> [height |-> 50, width |-> 200]])

\* The canvas nodes after addCanvasNode(link, e)
addCanvasNode(ns, link, x, y, posOk) ==
    IF ~callsPosFromEvt(x, y) THEN ns
    ELSE LET leaf == findCanvasLeaf(x, y)
             coords == posFromEvt(CanvasLeaves[leaf], x, y, posOk)
         IN IF ~IsFinite(coords.x) \/ ~IsFinite(coords.y)
            THEN ns
            ELSE Append(ns, [canvas |-> leaf,
                             pos |-> coords,
                             text |-> link,
                             size |-> [height |-> 50, width |-> 200]])

\* A release handler that does not validate the drop coordinates.
finalizes_anyCoordinates(x, y) ==
    /\ dragState.present
    /\ dragState.dragging
    /\ activeFile # NoFile
    /\ activeFile.extension = "md"

\* A release handler that accepts an active file of any kind.
finalizes_anyFile(x, y) ==
    /\ dragState.present
    /\ dragState.dragging
    /\ IsFinite(x) /\ IsFinite(y)
    /\ activeFile # NoFile

\* A release handler that finalizes a plain click too.
finalizes_withoutDrag(x, y) ==
    /\ dragState.present
    /\ IsFinite(x) /\ IsFinite(y)
    /\ activeFile # NoFile
    /\ activeFile.extension = "md"

\* Does a release at (x, y) reach the finalization of a drop
finalizes(x, y) ==
    /\ dragState.present
    /\ dragState.dragging
    /\ IsFinite(x) /\ IsFinite(y)
    /\ activeFile # NoFile
    /\ activeFile.extension = "md"

onMouseUp(alt, x, y, writeOk, rnd, posOk) ==
    /\ listening("document", "mouseup", "onMouseUp")
    /\ IF ~dragState.present
       THEN /\ writeOk /\ posOk
            /\ evt' = Step("mouseup")
            /\ UNCHANGED <<dragState, body, style, docs, nodes, pending>>
       ELSE /\ style' = [style EXCEPT ![dragState.sourceEl] = DefaultStyle]
            /\ body' = IF dragState.previewEl # NoPreview
                       THEN removeChild(body, dragState.previewEl)
                       ELSE body
            /\ dragState' = NoDrag
            /\ IF ~finalizes(x, y)
               THEN /\ writeOk /\ posOk
                    /\ UNCHANGED <<docs, nodes, pending>>
               ELSE IF existingBlockId(dragState.rawLineText) # <<>>
               THEN /\ writeOk
                    /\ posOk \/ callsPosFromEvt(x, y)
                    /\ nodes' = addCanvasNode(
                           nodes,
                           linkReference(
                               stripMdSuffix(activeFile.name),
                               existingBlockId(dragState.rawLineText)),
                           x, y, posOk)
                    /\ UNCHANGED <<docs, pending>>
               ELSE /\ posOk
                    /\ docs' = updateBulletInEditor(
                           docs, dragState.editor, dragState.lineNumber,
                           dragState.rawLineText,
                           generateBulletId(DateNow(gestures), rnd), writeOk)
                    /\ pending' = Append(pending,
                           [file |-> activeFile,
                            id |-> generateBulletId(DateNow(gestures), rnd),
                            clientX |-> x, clientY |-> y])
                    /\ UNCHANGED nodes
            /\ evt' = [Event("mouseup", alt,
                             seen(dragState.dragging, x, 0),
                             seen(dragState.dragging, y, 0),
                             NoEl, session, writeOk, posOk, FALSE, FALSE)
                         EXCEPT !.replaced =
                            IF /\ finalizes(x, y)
                               /\ existingBlockId(dragState.rawLineText) = <<>>
                               /\ writeOk
                            THEN getLine(dragState.editor,
                                         dragState.lineNumber)
                            ELSE <<>>]
    /\ UNCHANGED <<phase, activeFile, cmAvailable, gestures>>

\* A continuation that clears this.dragState after the await, as a handler
\* does that resets the session at its end.
resumeMouseUp_clearsSession(posOk) ==
    /\ pending # <<>>
    /\ LET k == Head(pending)
       IN /\ posOk \/ callsPosFromEvt(k.clientX, k.clientY)
          /\ nodes' = addCanvasNode(
                 nodes,
                 linkReference(stripMdSuffix(k.file.name), k.id),
                 k.clientX, k.clientY, posOk)
          /\ evt' = Event("resume", FALSE, k.clientX, k.clientY, NoEl,
                          "absent", TRUE, posOk, FALSE, FALSE)
    /\ pending' = Tail(pending)
    /\ dragState' = NoDrag
    /\ UNCHANGED <<phase, body, style, docs, activeFile,
                   cmAvailable, gestures>>

\* A continuation that stays queued until a node was created, as a retry
\* policy would keep it.
resumeMouseUp_retriesUntilCreated(posOk) ==
    /\ pending # <<>>
    /\ LET k == Head(pending)
       IN /\ posOk \/ callsPosFromEvt(k.clientX, k.clientY)
          /\ nodes' = addCanvasNode(
                 nodes,
                 linkReference(stripMdSuffix(k.file.name), k.id),
                 k.clientX, k.clientY, posOk)
          /\ evt' = Event("resume", FALSE, k.clientX, k.clientY, NoEl,
                          "absent", TRUE, posOk, FALSE, FALSE)
          /\ pending' = IF addCanvasNode(
                               nodes,
                               linkReference(stripMdSuffix(k.file.name), k.id),
                               k.clientX, k.clientY, posOk) = nodes
                        THEN pending
                        ELSE Tail(pending)
    /\ UNCHANGED <<phase, dragState, body, style, docs, activeFile,
                   cmAvailable, gestures>>

\* The rest of onMouseUp after `await this.updateBulletInEditor(...)`: it
\* runs as a later job of the event loop, with the values the call captured.
resumeMouseUp(posOk) ==
    /\ pending # <<>>
    /\ LET k == Head(pending)
       IN /\ posOk \/ callsPosFromEvt(k.clientX, k.clientY)
          /\ nodes' = addCanvasNode(
                 nodes,
                 linkReference(stripMdSuffix(k.file.name), k.id),
                 k.clientX, k.clientY, posOk)
          /\ evt' = Event("resume", FALSE, k.clientX, k.clientY, NoEl,
                          "absent", TRUE, posOk, FALSE, FALSE)
    /\ pending' = Tail(pending)
    /\ UNCHANGED <<phase, dragState, body, style, docs, activeFile,
                   cmAvailable, gestures>>

(***************************************************************************)
(* Hover affordance                                                        *)
(***************************************************************************)
\* bulletEl.textContent: the text of the line the element shows
textContent(el) ==
    LET note == CHOOSE f \in Notes : f.name = el[1]
    IN docs[note][el[2] + 1]

\* (bulletEl as HTMLElement).style.cursor, "absent" outside every line
cursorAt(el) == IF el = NoEl THEN "absent" ELSE style[el].cursor

onMouseOverBullet(alt, target) ==
    /\ listening("body", "mouseover", "onMouseOverBullet")
    /\ style' = IF /\ alt
                   /\ target # NoEl
                   /\ trim(textContent(target)) # <<>>
                   /\ startsWith(trim(textContent(target)), <<"-">>)
                THEN [style EXCEPT ![target].cursor = "grab"]
                ELSE style
    /\ evt' = Event("mouseover", alt, 0, 0, target, cursorAt(target),
                    TRUE, TRUE, FALSE, FALSE)
    /\ UNCHANGED <<phase, dragState, body, docs, activeFile, cmAvailable,
                   nodes, pending, gestures>>

onMouseOutBullet(target) ==
    /\ listening("body", "mouseout", "onMouseOutBullet")
    /\ style' = IF target # NoEl /\ style[target].cursor = "grab"
                THEN [style EXCEPT ![target].cursor = ""]
                ELSE style
    /\ evt' = Event("mouseout", FALSE, 0, 0, target, cursorAt(target),
                    TRUE, TRUE, FALSE, FALSE)
    /\ UNCHANGED <<phase, dragState, body, docs, activeFile, cmAvailable,
                   nodes, pending, gestures>>

(***************************************************************************)
(* globalErrorHandler                                                      *)
(***************************************************************************)
\* The text the handler looks for in event.message.
BenignText ==
    <<"R", "e", "s", "i", "z", "e", "O", "b", "s", "e", "r", "v", "e", "r",
      " ", "l", "o", "o", "p", " ", "c", "o", "m", "p", "l", "e", "t", "e",
      "d", " ", "w", "i", "t", "h", " ", "u", "n", "d", "e", "l", "i", "v",
      "e", "r", "e", "d", " ", "n", "o", "t", "i", "f", "i", "c", "a", "t",
      "i", "o", "n", "s">>

\* Other texts an error message may hold.
LimitText ==
    <<"R", "e", "s", "i", "z", "e", "O", "b", "s", "e", "r", "v", "e", "r",
      " ", "l", "o", "o", "p", " ", "l", "i", "m", "i", "t", " ", "e", "x",
      "c", "e", "e", "d", "e", "d">>

BenignLowerCase ==
    <<"r", "e", "s", "i", "z", "e", "o", "b", "s", "e", "r", "v", "e", "r",
      " ", "l", "o", "o", "p", " ", "c", "o", "m", "p", "l", "e", "t", "e",
      "d", " ", "w", "i", "t", "h", " ", "u", "n", "d", "e", "l", "i", "v",
      "e", "r", "e", "d", " ", "n", "o", "t", "i", "f", "i", "c", "a", "t",
      "i", "o", "n", "s">>

TypeErrorText ==
    <<"T", "y", "p", "e", "E", "r", "r", "o", "r", ":", " ", "x", " ", "i",
      "s", " ", "n", "o", "t", " ", "a", " ", "f", "u", "n", "c", "t", "i",
      "o", "n">>

\* Messages of the error events the window may dispatch: the empty one, the
\* benign text alone, preceded and followed by other text, cut short by one
\* character at either end, in another case, and unrelated ones.
Messages ==
    {pre \o mid \o post :
        pre \in {<<>>, <<"U", "n", "c", "a", "u", "g", "h", "t", " ">>},
        mid \in {<<>>, BenignText, Tail(BenignText),
                 SubSeq(BenignText, 1, Len(BenignText) - 1),
                 BenignLowerCase, LimitText, TypeErrorText},
        post \in {<<>>, <<".">>}}

\* String.prototype.includes
includes(text, part) ==
    \E i \in 0..(Len(text) - Len(part)) :
        SubSeq(text, i + 1, i + Len(part)) = part

\* An observer that swallows every ResizeObserver error.
isBenign_anyResizeObserver(message) ==
    message # <<>> /\ includes(message, SubSeq(BenignText, 1, 14))

\* event.message && event.message.includes("ResizeObserver loop ...")
isBenign(message) ==
    message # <<>> /\ includes(message, BenignText)

\* The listener of the window's "error" event: stopImmediatePropagation
\* for the benign message, nothing otherwise.
globalErrorHandler(message) ==
    /\ listening("window", "error", "globalErrorHandler")
    /\ evt' = [Step("error") EXCEPT !.message = message,
                                    !.propagationStopped = isBenign(message)]
    /\ UNCHANGED <<phase, dragState, body, style, docs, activeFile,
                   cmAvailable, nodes, pending, gestures>>

(***************************************************************************)
(* The user and the host                                                   *)
(***************************************************************************)
\* The user retypes the source line of the gesture under way.
editLine(text) ==
    /\ dragState.present
    /\ getLine(dragState.editor, dragState.lineNumber) # text
    /\ docs' = [docs EXCEPT
                   ![dragState.editor][dragState.lineNumber + 1] = text]
    /\ evt' = Step("edit")
    /\ UNCHANGED <<phase, dragState, body, style, activeFile, cmAvailable,
                   nodes, pending, gestures>>

\* Another file, or none, becomes the workspace's active file.
switchFile(f) ==
    /\ f # activeFile
    /\ activeFile' = f
    /\ evt' = Step("switch")
    /\ UNCHANGED <<phase, dragState, body, style, docs, cmAvailable,
                   nodes, pending, gestures>>

(***************************************************************************)
(* Specification                                                           *)
(***************************************************************************)
Next ==
    \/ onload
    \/ onunload
    \/ \E alt \in BOOLEAN, p \in PressPoints :
          \E target \in TargetsAt(p[1], p[2]) :
             onMouseDown(alt, p[1], p[2], target)
    \/ \E alt \in BOOLEAN, p \in MovePoints : onMouseMove(alt, p[1], p[2])
    \/ \E alt \in BOOLEAN, p \in DropPoints, writeOk \in BOOLEAN,
          rnd \in Randoms, posOk \in BOOLEAN :
          onMouseUp(alt, p[1], p[2], writeOk, rnd, posOk)
    \/ \E posOk \in BOOLEAN : resumeMouseUp(posOk)
    \/ \E text \in EditTexts : editLine(text)
    \/ \E f \in Files \cup {NoFile} : switchFile(f)

Spec == Init /\ [][Next]_vars

(***************************************************************************)
(* Previews of long lines: the same handlers, started with a note whose    *)
(* first line is a bullet of every length up to MaxContentLen.             *)
(***************************************************************************)
MaxContentLen == 33

\* Bullet contents of length n: letters in rotation, with a blank inside
\* when shift is 0.
Content(n, shift) ==
    [i \in 1..n |->
        IF shift = 0 /\ i = 2 /\ n > 2 THEN " "
        ELSE <<"a", "b", "k">>[((i + shift) % 3) + 1]]

\* Lines showing a content: optional indentation, the marker, optional
\* blank after it, the content, optional trailing blank.
BulletLines ==
    {lead \o <<"-">> \o gap \o Content(n, shift) \o trail :
        lead \in {<<>>, <<" ">>}, gap \in {<<>>, <<" ">>},
        trail \in {<<>>, <<" ">>},
        n \in 0..MaxContentLen, shift \in 0..1}

TruncateInit ==
    /\ phase = "constructed"
    /\ dragState = NoDrag
    /\ body = <<>>
    /\ style = [el \in LineEls |-> DefaultStyle]
    /\ \E line \in BulletLines :
          docs = [InitialDocs EXCEPT ![NoteA] = <<line, <<"x">> >>]
    /\ activeFile = NoteA
    /\ cmAvailable = TRUE
    /\ nodes = <<>>
    /\ pending = <<>>
    /\ evt = Step("none")
    /\ gestures = 0

\* The gesture that shows a preview: press on the first line, move beyond
\* the threshold, release at a position that finalizes nothing.
TruncateNext ==
    \/ onload
    \/ onMouseDown(TRUE, 0, 0, LineEl(NoteA, 0))
    \/ onMouseMove(FALSE, 15, 4)
    \/ onMouseUp(FALSE, NaN, 4, TRUE, <<"7">>, TRUE)

SpecTruncate == TruncateInit /\ [][TruncateNext]_vars

(***************************************************************************)
(* The page around the drag: the hover handlers and the error observer     *)
(* run beside a gesture on the first line of the active note.              *)
(***************************************************************************)
\* Elements a mouseover or mouseout may target: the lines the active note
\* shows, or an element outside every line.
HoverTargets ==
    {NoEl} \cup {el \in LineEls : hasMarkdownView /\ el[1] = activeFile.name}

HoverNext ==
    \/ onload
    \/ \E alt \in BOOLEAN, target \in HoverTargets :
          onMouseOverBullet(alt, target)
    \/ \E target \in HoverTargets : onMouseOutBullet(target)
    \/ \E message \in Messages : globalErrorHandler(message)
    \/ onMouseDown(TRUE, 0, 0, LineEl(activeFile, 0))
    \/ onMouseMove(TRUE, 15, 4)
    \/ onMouseUp(TRUE, NaN, 4, TRUE, <<"7">>, TRUE)

SpecHover == Init /\ [][HoverNext]_vars

(***************************************************************************)
(* Lines that carry an anchor: the same handlers, started with a note      *)
(* whose first line is a bullet with no anchor token or with one, at the   *)
(* very end of the line or followed by a blank.                            *)
(***************************************************************************)
AnchoredLines ==
    {<<"-", " ", "a">>,
     <<"-", " ", "a", " ", "^", "k">>,
     <<"-", " ", "a", " ", "^", "k", "-", "1">>,
     <<"-", " ", "a", " ", "^", "k", " ">>}

AnchorsInit ==
    /\ phase = "constructed"
    /\ dragState = NoDrag
    /\ body = <<>>
    /\ style = [el \in LineEls |-> DefaultStyle]
    /\ \E line \in AnchoredLines :
          docs = [InitialDocs EXCEPT ![NoteA] = <<line, <<"x">> >>]
    /\ activeFile = NoteA
    /\ cmAvailable = TRUE
    /\ nodes = <<>>
    /\ pending = <<>>
    /\ evt = Step("none")
    /\ gestures = 0

\* Press, move and release gestures, and the continuations of the releases.
AnchorsNext ==
    \/ onload
    \/ \E alt \in BOOLEAN, p \in PressPoints :
          \E target \in TargetsAt(p[1], p[2]) :
             onMouseDown(alt, p[1], p[2], target)
    \/ \E p \in MovePoints : onMouseMove(FALSE, p[1], p[2])
    \/ \E p \in DropPoints, writeOk \in BOOLEAN, rnd \in Randoms :
          onMouseUp(FALSE, p[1], p[2], writeOk, rnd, TRUE)
    \/ resumeMouseUp(TRUE)

SpecAnchors == AnchorsInit /\ [][AnchorsNext]_vars

(***************************************************************************)
(* The file-scanning variant of the plugin (src/unnamed/part_001, lines    *)
(* 109-340): the session holds no editor and no line number, the release   *)
(* handler reads the text of the source line from the page and             *)
(* updateBulletInFile locates the line by scanning the content of the file.*)
(* The variant's hover handlers and error observer read and write neither  *)
(* this.dragState nor the vault and are left out of its specification.     *)
(***************************************************************************)
LineBreak == "\n"

\* \s of a regular expression applied to the content of a file
RegexSpace == Whitespace \cup {LineBreak}

\* The characters escapeRegex puts a backslash before: [.*+?^${}()|[\]\\]
RegexSpecials ==
    {".", "*", "+", "?", "^", "$", "{", "}", "(", ")", "|", "[", "]", "\\"}

\* str.replace(/[.*+?^${}()|[\]\\]/g, '\\$&')
RECURSIVE escapeRegex(_)
escapeRegex(str) ==
    IF str = <<>> THEN <<>>
    ELSE (IF Head(str) \in RegexSpecials
          THEN <<"\\", Head(str)>>
          ELSE <<Head(str)>>) \o escapeRegex(Tail(str))

NoMatch == -1

\* The pattern `(${escaped})` applied at position i of the content: the
\* position of the last character matched, NoMatch if it does not match.  A
\* backslash makes the character after it literal; the other characters of
\* an escaped text stand for themselves.
RECURSIVE matchEscaped(_, _, _)
matchEscaped(content, i, pattern) ==
    IF pattern = <<>> THEN i - 1
    ELSE LET escapes == Head(pattern) = "\\" /\ Len(pattern) >= 2
             c == IF escapes THEN pattern[2] ELSE pattern[1]
             rest == IF escapes THEN Tail(Tail(pattern)) ELSE Tail(pattern)
         IN IF i <= Len(content) /\ content[i] = c
            THEN matchEscaped(content, i + 1, rest)
            ELSE NoMatch

\* Does \s*\^ match at position j of the content (the pattern inside the
\* negative lookahead)
RECURSIVE caretAhead(_, _)
caretAhead(content, j) ==
    IF j > Len(content) THEN FALSE
    ELSE IF content[j] \in RegexSpace THEN caretAhead(content, j + 1)
    ELSE content[j] = "^"

\* The positions where new RegExp(`^(${escaped})(?!\\s*\\^)`, "m") matches:
\* with the m flag ^ matches at the start of the content and after every
\* line break.
regexMatches(content, bulletTextRaw) ==
    {i \in 1..(Len(content) + 1) :
        /\ i = 1 \/ content[i - 1] = LineBreak
        /\ matchEscaped(content, i, escapeRegex(bulletTextRaw)) # NoMatch
        /\ ~caretAhead(content,
                       matchEscaped(content, i, escapeRegex(bulletTextRaw))
                         + 1)}

\* content.replace(regex, `$1 ^${id}`): the first match only
replaceFirst(content, bulletTextRaw, id) ==
    IF regexMatches(content, bulletTextRaw) = {} THEN content
    ELSE LET i == CHOOSE k \in regexMatches(content, bulletTextRaw) :
                     \A m \in regexMatches(content, bulletTextRaw) : k <= m
             e == matchEscaped(content, i, escapeRegex(bulletTextRaw))
         IN SubSeq(content, 1, i - 1)
              \o SubSeq(content, i, e) \o <<" ", "^">> \o id
              \o SubSeq(content, e + 1, Len(content))

\* this.app.vault.read(file): the lines of the file joined by line breaks
RECURSIVE vaultRead(_)
vaultRead(lines) ==
    IF lines = <<>> THEN <<>>
    ELSE IF Len(lines) = 1 THEN lines[1]
    ELSE lines[1] \o <<LineBreak>> \o vaultRead(Tail(lines))

\* this.app.vault.modify(file, newContent): the lines of the new content
RECURSIVE vaultModify(_)
vaultModify(content) ==
    LET breaks == {i \in 1..Len(content) : content[i] = LineBreak}
    IN IF breaks = {} THEN <<content>>
       ELSE LET b == CHOOSE k \in breaks : \A m \in breaks : k <= m
            IN <<SubSeq(content, 1, b - 1)>>
                 \o vaultModify(SubSeq(content, b + 1, Len(content)))

\* The documents after updateBulletInFile(bulletTextRaw, id, file)
updateBulletInFile(d, bulletTextRaw, id, file) ==
    LET content == vaultRead(d[file])
        newContent == replaceFirst(content, bulletTextRaw, id)
    IN IF newContent # content
       THEN [d EXCEPT ![file] = vaultModify(newContent)]
       ELSE d

\* bulletEl.textContent.trim().startsWith("- ") for the .cm-line of the
\* target, which has text
scan_isBullet(target) ==
    /\ target # NoEl
    /\ textContent(target) # <<>>
    /\ startsWith(trim(textContent(target)), <<"-", " ">>)

scan_onload ==
    /\ phase = "constructed"
    /\ phase' = "loaded"
    /\ evt' = Step("load")
    /\ UNCHANGED <<dragState, body, style, docs, activeFile, cmAvailable,
                   nodes, pending, gestures>>

\* The variant's teardown removes the listeners and nothing else.
scan_onunload ==
    /\ phase = "loaded"
    /\ phase' = "unloaded"
    /\ evt' = [Step("unload") EXCEPT !.found = session]
    /\ UNCHANGED <<dragState, body, style, docs, activeFile, cmAvailable,
                   nodes, pending, gestures>>

scan_onMouseDown(alt, x, y, target) ==
    /\ phase = "loaded"
    /\ IF alt /\ scan_isBullet(target)
       THEN /\ gestures < MaxGestures
            /\ dragState' = [present |-> TRUE,
                             initialX |-> x, initialY |-> y,
                             dragging |-> FALSE,
                             sourceEl |-> target,
                             previewEl |-> NoPreview]
            /\ gestures' = gestures + 1
            /\ evt' = Event("mousedown", alt, x, y, target, session,
                            TRUE, TRUE, TRUE, TRUE)
       ELSE /\ evt' = Event("mousedown", alt, 0, 0, seen(alt, target, NoEl),
                            session, TRUE, TRUE, FALSE, FALSE)
            /\ UNCHANGED <<dragState, gestures>>
    /\ UNCHANGED <<phase, body, style, docs, activeFile, cmAvailable, nodes,
                   pending>>

scan_onMouseMove(x, y) ==
    /\ phase = "loaded"
    /\ IF ~dragState.present
       THEN /\ evt' = Step("mousemove")
            /\ UNCHANGED <<dragState, body, style>>
       ELSE LET starts == startsDrag(x, y)
                ds1 == IF starts
                       THEN [dragState EXCEPT !.dragging = TRUE,
                                              !.previewEl = newElement]
                       ELSE dragState
                body1 == IF starts
                         THEN body @@ (newElement :>
                                 [createPreview(
                                      textContent(dragState.sourceEl))
                                  EXCEPT !.left = x, !.top = y])
                         ELSE body
                follows == ds1.dragging /\ ds1.previewEl # NoPreview
            IN /\ dragState' = ds1
               /\ style' = IF starts
                           THEN [style EXCEPT
                                    ![dragState.sourceEl].cursor = "grabbing"]
                           ELSE style
               \* a preview that was detached keeps receiving positions,
               \* which the page does not show
               /\ body' = IF follows /\ ds1.previewEl \in DOMAIN body1
                          THEN [body1 EXCEPT
                                  ![ds1.previewEl].left = x + PreviewOffset,
                                  ![ds1.previewEl].top = y + PreviewOffset]
                          ELSE body1
               /\ evt' = Event("mousemove", FALSE, x, y, NoEl, session,
                               TRUE, TRUE, follows, FALSE)
    /\ UNCHANGED <<phase, docs, activeFile, cmAvailable, nodes, pending,
                   gestures>>

\* bulletTextRaw.slice(bulletTextRaw.indexOf("^") + 1).trim()
scan_existingId(bulletTextRaw) ==
    LET carets == {i \in 1..Len(bulletTextRaw) : bulletTextRaw[i] = "^"}
        first == CHOOSE i \in carets : \A j \in carets : i <= j
    IN trim(SubSeq(bulletTextRaw, first + 1, Len(bulletTextRaw)))

\* The canvas nodes after the variant's addCanvasNode(link, x, y): the node
\* is placed at the screen coordinates it is given.
scan_addCanvasNode(ns, link, x, y) ==
    IF findCanvasLeaf(x, y) = 0 THEN ns
    ELSE Append(ns, [canvas |-> findCanvasLeaf(x, y),
                     pos |-> [x |-> x, y |-> y],
                     text |-> link])

\* onMouseUp up to its first suspension.  The session is cleared at the end
\* of the handler only, so a release that awaits updateBulletInFile leaves
\* this.dragState as it is, with its preview detached.  A release that finds
\* such a session calls removeChild for a node that is no child of the body,
\* which throws and ends the handler.
scan_onMouseUp(x, y, rnd) ==
    /\ phase = "loaded"
    /\ IF ~dragState.present
       THEN /\ evt' = Step("mouseup")
            /\ UNCHANGED <<dragState, body, style, nodes, pending>>
       ELSE IF /\ dragState.dragging
               /\ dragState.previewEl # NoPreview
               /\ dragState.previewEl \notin DOMAIN body
       THEN /\ evt' = Event("mouseup", FALSE, x, y, NoEl, "thrown",
                            TRUE, TRUE, FALSE, FALSE)
            /\ UNCHANGED <<dragState, body, style, nodes, pending>>
       ELSE LET bulletTextRaw == trim(textContent(dragState.sourceEl))
                finalizesDrop == /\ dragState.dragging
                                 /\ activeFile # NoFile
                                 /\ activeFile.extension = "md"
                awaits == /\ finalizesDrop
                          /\ "^" \notin {bulletTextRaw[i] :
                                           i \in 1..Len(bulletTextRaw)}
            IN /\ body' = IF /\ dragState.dragging
                             /\ dragState.previewEl # NoPreview
                          THEN removeChild(body, dragState.previewEl)
                          ELSE body
               /\ nodes' = IF finalizesDrop /\ ~awaits
                           THEN scan_addCanvasNode(
                                    nodes,
                                    linkReference(
                                        stripMdSuffix(activeFile.name),
                                        scan_existingId(bulletTextRaw)),
                                    x, y)
                           ELSE nodes
               /\ pending' = IF awaits
                             THEN Append(pending,
                                    [text |-> bulletTextRaw,
                                     id |-> generateBulletId(
                                                DateNow(gestures), rnd),
                                     file |-> activeFile,
                                     clientX |-> x, clientY |-> y,
                                     stage |-> "read",
                                     gesture |-> gestures])
                             ELSE pending
               /\ style' = IF awaits THEN style
                           ELSE [style EXCEPT
                                    ![dragState.sourceEl].cursor = ""]
               /\ dragState' = IF awaits THEN dragState ELSE NoDrag
               /\ evt' = Event("mouseup", FALSE, x, y, NoEl, session,
                               TRUE, TRUE, FALSE, FALSE)
    /\ UNCHANGED <<phase, docs, activeFile, cmAvailable, gestures>>

\* updateBulletInFile after `await this.app.vault.read(file)`: the content
\* read is scanned and, if the replacement changed it, written back.
scan_updateBulletInFile ==
    /\ pending # <<>>
    /\ Head(pending).stage = "read"
    /\ docs' = updateBulletInFile(docs, Head(pending).text, Head(pending).id,
                                  Head(pending).file)
    /\ pending' = [pending EXCEPT ![1].stage = "written"]
    /\ evt' = [Step("filewrite") EXCEPT !.found = session]
    /\ UNCHANGED <<phase, dragState, body, style, activeFile, cmAvailable,
                   nodes, gestures>>

\* The rest of onMouseUp after `await this.updateBulletInFile(...)`: the
\* node is added, then the cursor of this.dragState.sourceEl is reset and
\* this.dragState is cleared, whichever session the field holds by then;
\* when it holds none, reading sourceEl throws after the node was added.
scan_resumeMouseUp ==
    /\ pending # <<>>
    /\ Head(pending).stage = "written"
    /\ LET k == Head(pending)
       IN /\ nodes' = scan_addCanvasNode(
                 nodes,
                 linkReference(stripMdSuffix(k.file.name), k.id),
                 k.clientX, k.clientY)
          /\ evt' = Event("resume", FALSE, k.clientX, k.clientY, NoEl,
                          session, TRUE, TRUE, FALSE, FALSE)
    /\ style' = IF dragState.present
                THEN [style EXCEPT ![dragState.sourceEl].cursor = ""]
                ELSE style
    /\ dragState' = NoDrag
    /\ pending' = Tail(pending)
    /\ UNCHANGED <<phase, body, docs, activeFile, cmAvailable, gestures>>

\* The first note as the vault holds it: a plain bullet; a bullet that
\* carries an anchor above the same bullet without one; a bullet followed by
\* a line that starts with a caret, above the same bullet again; a longer
\* bullet above its prefix; an indented bullet.
ScanFiles ==
    { << <<"-", " ", "a">>, <<"x">> >>,
      << <<"-", " ", "a", " ", "^", "k">>, <<"-", " ", "a">> >>,
      << <<"-", " ", "a">>, <<"^", "k">>, <<"-", " ", "a">> >>,
      << <<"-", " ", "a", "b">>, <<"-", " ", "a">> >>,
      << <<" ", "-", " ", "a">>, <<"x">> >> }

ScanPressPoints == { <<0, 0>>, <<3, 4>> }
ScanMovePoints == { <<3, 4>>, <<15, 4>> }
ScanDropPoints == { <<0, 0>>, <<20, 4>> }

ScanInit ==
    /\ phase = "constructed"
    /\ dragState = NoDrag
    /\ body = <<>>
    /\ style = [el \in LineEls |-> DefaultStyle]
    /\ \E lines \in ScanFiles : docs = [InitialDocs EXCEPT ![NoteA] = lines]
    /\ activeFile = NoteA
    /\ cmAvailable = TRUE
    /\ nodes = <<>>
    /\ pending = <<>>
    /\ evt = Step("none")
    /\ gestures = 0

ScanNext ==
    \/ scan_onload
    \/ scan_onunload
    \/ \E alt \in BOOLEAN, p \in ScanPressPoints :
          \E target \in TargetsAt(p[1], p[2]) :
             scan_onMouseDown(alt, p[1], p[2], target)
    \/ \E p \in ScanMovePoints : scan_onMouseMove(p[1], p[2])
    \/ \E p \in ScanDropPoints, rnd \in Randoms :
          scan_onMouseUp(p[1], p[2], rnd)
    \/ scan_updateBulletInFile
    \/ scan_resumeMouseUp

SpecScan == ScanInit /\ [][ScanNext]_vars

\* ---------------------------------------------------------------------
\* Properties
\* ---------------------------------------------------------------------

\* Vocabulary of the properties, stated without the operators of the
\* handlers.

\* The text begins, after leading whitespace, with the list marker.
BeginsWithMarker(text) ==
    \E i \in 1..Len(text) :
        text[i] = "-" /\ \A j \in 1..(i - 1) : text[j] \in Whitespace

\* The pointer is over a line of the note shown by the active Markdown view.
OverLine(x, y) ==
    /\ activeFile \in Notes
    /\ IsFinite(x) /\ IsFinite(y)
    /\ x \in 0..EditorRight
    /\ y >= 0
    /\ (y \div LineHeight) + 1 <= Len(docs[activeFile])

\* The text of that line.
PointedText(x, y) == docs[activeFile][(y \div LineHeight) + 1]

\* The text without its trailing whitespace.
WithoutTrailingSpaces(t) ==
    LET keep == {i \in 0..Len(t) : i = 0 \/ t[i] \notin Whitespace}
    IN SubSeq(t, 1, CHOOSE i \in keep : \A j \in keep : j <= i)

\* An id as the plugin generates it: digits, a dash, digits.
IsGeneratedId(id) ==
    \E k \in 2..(Len(id) - 1) :
        /\ id[k] = "-"
        /\ \A j \in (1..Len(id)) \ {k} : id[j] \in Digits

\* The text ends with whitespace, a caret and an id of word characters
\* and dashes.
AnchorStarts(text) ==
    {i \in 1..(Len(text) - 2) :
        /\ text[i] \in Whitespace
        /\ text[i + 1] = "^"
        /\ \A j \in (i + 2)..Len(text) : text[j] \in WordOrDash}

HasTrailingAnchor(text) == AnchorStarts(text) # {}

\* The id of the trailing anchor token.
TrailingAnchor(text) ==
    LET i == CHOOSE i \in AnchorStarts(text) : TRUE
    IN SubSeq(text, i + 2, Len(text))

EndsWithGeneratedAnchor(text) ==
    HasTrailingAnchor(text) /\ IsGeneratedId(TrailingAnchor(text))

\* The embedded block reference ![[<file name without .md>#^<id>]].
EmbedOf(file, id) ==
    <<"!", "[", "[">> \o SubSeq(file.name, 1, Len(file.name) - 3)
        \o <<"#", "^">> \o id \o <<"]", "]">>

\* The canvases under a point, and the one the lookup returns (the first).
CanvasesUnder(x, y) ==
    {i \in 1..Len(CanvasLeaves) :
        /\ IsFinite(x) /\ IsFinite(y)
        /\ CanvasLeaves[i].rect.left <= x /\ x <= CanvasLeaves[i].rect.right
        /\ CanvasLeaves[i].rect.top <= y /\ y <= CanvasLeaves[i].rect.bottom}

OutsideAll(x, y) == CanvasesUnder(x, y) = {}

MappingCanvasUnder(x, y) ==
    /\ CanvasesUnder(x, y) # {}
    /\ CanvasLeaves[CHOOSE i \in CanvasesUnder(x, y) :
                       \A j \in CanvasesUnder(x, y) : i <= j].hasPosFromEvt

\* The step releases the button in a session that is dragging.
ReleaseWhileDragging ==
    /\ evt'.type = "mouseup"
    /\ dragState.present
    /\ dragState.dragging

\* The release reaches the finalization: finite coordinates and an active
\* Markdown file.
FinalizingRelease ==
    /\ ReleaseWhileDragging
    /\ IsFinite(evt'.clientX) /\ IsFinite(evt'.clientY)
    /\ activeFile # NoFile
    /\ activeFile.extension = "md"

\* The step appends exactly one node to the canvas nodes, with this text.
AddsNode(text) ==
    /\ Len(nodes') = Len(nodes) + 1
    /\ SubSeq(nodes', 1, Len(nodes)) = nodes
    /\ nodes'[Len(nodes')].text = text

\* The step rewrites only the captured line of the captured editor, to this
\* text.
RewritesCapturedLine(text) ==
    docs' = [docs EXCEPT ![dragState.editor][dragState.lineNumber + 1] = text]

NumPreviews == Cardinality(DOMAIN body)

\* C1: a press without the modifier key is ignored: whatever else holds, it
\* creates no Drag Session and leaves the existing one as it is, and the
\* event keeps its default action and its propagation.
C1_PressWithoutModifierIgnored ==
    [][(evt'.type = "mousedown" /\ ~evt'.altKey)
          => /\ dragState' = dragState
             /\ ~evt'.defaultPrevented
             /\ ~evt'.propagationStopped]_vars

\* A press without the modifier was handled where the same press with the
\* modifier could have armed a session.
C1_Witness ==
    /\ evt.type = "mousedown"
    /\ ~evt.altKey
    /\ phase = "loaded"
    /\ activeFile = NoteA
    /\ cmAvailable
    /\ ~dragState.present
    /\ gestures < MaxGestures

\* C2: a press with the modifier over a line whose text does not begin,
\* after leading whitespace, with the list marker creates no Drag Session.
C2_PressOnPlainLineIgnored ==
    [][(/\ evt'.type = "mousedown"
        /\ evt'.altKey
        /\ OverLine(evt'.clientX, evt'.clientY)
        /\ ~BeginsWithMarker(PointedText(evt'.clientX, evt'.clientY)))
          => /\ dragState' = dragState
             /\ ~evt'.defaultPrevented]_vars

\* A press with the modifier landed on a plain line of the note while the
\* editor could be queried.
C2_Witness ==
    /\ evt.type = "mousedown"
    /\ evt.altKey
    /\ cmAvailable
    /\ OverLine(evt.clientX, evt.clientY)
    /\ ~BeginsWithMarker(PointedText(evt.clientX, evt.clientY))
    /\ gestures < MaxGestures

\* C3: a gesture that never exceeded the threshold modifies neither the
\* note nor a canvas.  The note is written only by a release that finds the
\* session dragging (or by the user's own edit), a node is added only by
\* such a release or by its continuation, and a release that finds the
\* session armed but not dragging changes no document, adds no node and
\* starts no finalization.
C3_ClickModifiesNothing ==
    [][/\ (nodes' # nodes)
            => (evt'.type = "resume" \/ ReleaseWhileDragging)
       /\ (docs' # docs)
            => (evt'.type = "edit" \/ ReleaseWhileDragging)
       /\ (pending' # pending)
            => (evt'.type = "resume" \/ ReleaseWhileDragging)
       /\ (evt'.type = "mouseup" /\ dragState.present /\ ~dragState.dragging)
            => /\ docs' = docs
               /\ nodes' = nodes
               /\ pending' = pending
               /\ dragState' = NoDrag]_vars

\* The button was released in a session that was armed and not dragging.
C3_Witness ==
    /\ evt.type = "mouseup"
    /\ evt.found = "armed"
    /\ ~dragState.present

\* C4: a release while dragging, at finite coordinates, with an active
\* Markdown file, a captured line that carries no trailing anchor, and a
\* successful write, rewrites exactly the captured line to its text without
\* trailing whitespace followed by " ^" and a generated id, and hands that
\* id with the file and the drop point to the continuation; the
\* continuation, when the canvas found under the drop point maps
\* coordinates, adds exactly one node whose text is the embedded reference
\* to that file (without .md) and that id.
C4_DropWritesAnchorAndNode ==
    [][/\ (/\ FinalizingRelease
           /\ ~HasTrailingAnchor(dragState.rawLineText)
           /\ evt'.writeOk)
            => /\ Len(pending') = Len(pending) + 1
               /\ SubSeq(pending', 1, Len(pending)) = pending
               /\ LET k == pending'[Len(pending')]
                  IN /\ IsGeneratedId(k.id)
                     /\ k.file = activeFile
                     /\ k.clientX = evt'.clientX
                     /\ k.clientY = evt'.clientY
                     /\ RewritesCapturedLine(
                            WithoutTrailingSpaces(dragState.rawLineText)
                                \o <<" ", "^">> \o k.id)
               /\ nodes' = nodes
       /\ (/\ evt'.type = "resume"
           /\ MappingCanvasUnder(Head(pending).clientX, Head(pending).clientY)
           /\ evt'.posOk)
            => /\ AddsNode(EmbedOf(Head(pending).file, Head(pending).id))
               /\ pending' = Tail(pending)]_vars

\* A finalization completed: the first line of note A carries the generated
\* anchor and the canvas holds the node that embeds it.
C4_Witness ==
    /\ evt.type = "resume"
    /\ docs[NoteA][1] = <<"-", " ", "a", " ", "^", "1", "-", "7">>
    /\ Len(nodes) = 1
    /\ nodes[1].text =
         <<"!", "[", "[", "A", "#", "^", "1", "-", "7", "]", "]">>

\* C5: dropping a bullet that already carries a generated anchor reuses
\* it.  A press captures the current text of the line; a finalizing release
\* whose captured text ends with an anchor in the generated form writes no
\* document, starts no continuation, and the node it adds (it adds one when
\* the canvas found under the drop point maps coordinates) embeds that same
\* id.
C5_SecondDropReusesAnchor ==
    [][/\ (evt'.type = "mousedown" /\ dragState' # dragState)
            => /\ dragState'.present
               /\ dragState'.editor = activeFile
               /\ dragState'.rawLineText =
                      docs[activeFile][dragState'.lineNumber + 1]
       /\ (/\ FinalizingRelease
           /\ EndsWithGeneratedAnchor(dragState.rawLineText))
            => /\ docs' = docs
               /\ pending' = pending
               /\ \/ nodes' = nodes
                  \/ AddsNode(EmbedOf(activeFile,
                                      TrailingAnchor(dragState.rawLineText)))
               /\ (MappingCanvasUnder(evt'.clientX, evt'.clientY)
                     /\ evt'.posOk) => nodes' # nodes]_vars

\* The same bullet was dropped twice: the line carries one anchor and the
\* canvas holds two nodes embedding it, the second added by the release.
C5_Witness ==
    /\ evt.type = "mouseup"
    /\ evt.found = "dragging"
    /\ docs[NoteA][1] = <<"-", " ", "a", " ", "^", "1", "-", "7">>
    /\ Len(nodes) = 2
    /\ nodes[1].text = nodes[2].text
    /\ nodes[2].text =
         <<"!", "[", "[", "A", "#", "^", "1", "-", "7", "]", "]">>

\* C6: a press followed by a move beyond the threshold leaves exactly one
\* preview attached to the page for as long as the session is dragging, and
\* none right after the release.  A further press before the release makes
\* this fail: it replaces the session without detaching the preview.
C6_ExactlyOnePreview ==
    [][/\ (/\ evt'.type = "mousemove"
           /\ dragState'.present
           /\ dragState'.dragging)
            => Cardinality(DOMAIN body') = 1
       /\ ReleaseWhileDragging
            => Cardinality(DOMAIN body') = 0]_vars

\* A session is dragging with two previews attached to the page.
C6_Witness ==
    /\ evt.type = "mousemove"
    /\ dragState.present
    /\ dragState.dragging
    /\ NumPreviews = 2

\* C7: the release clears the Drag Session before it suspends on the write,
\* so a gesture begun during the suspension owns the session: the
\* continuation leaves the session, the page and the line styles as the new
\* gesture has them and writes no document, it adds at most the node built
\* from the values captured at the release, and no mouse handler alters a
\* finalization that is already in flight.
C7_ContinuationKeepsNewSession ==
    [][/\ (evt'.type = "mouseup" /\ Len(pending') > Len(pending))
            => dragState' = NoDrag
       /\ (evt'.type = "resume")
            => /\ dragState' = dragState
               /\ body' = body
               /\ style' = style
               /\ docs' = docs
               /\ pending' = Tail(pending)
               /\ \/ nodes' = nodes
                  \/ AddsNode(EmbedOf(Head(pending).file, Head(pending).id))
       /\ (evt'.type \in {"mousedown", "mousemove", "mouseup"})
            => SubSeq(pending', 1, Len(pending)) = pending]_vars

\* A continuation ran while a gesture begun after the release was dragging.
C7_Witness ==
    /\ evt.type = "resume"
    /\ dragState.present
    /\ dragState.dragging
    /\ DOMAIN body = {dragState.previewEl}

\* C8: a drop outside every canvas adds no node and ends the session; the
\* release still writes a newly generated anchor to the captured line, and
\* the canvas lookup for it runs in the continuation, which writes no
\* document.
C8_DropOutsideCanvas ==
    [][/\ (/\ FinalizingRelease
           /\ OutsideAll(evt'.clientX, evt'.clientY))
            => /\ nodes' = nodes
               /\ dragState' = NoDrag
               /\ IF HasTrailingAnchor(dragState.rawLineText)
                  THEN docs' = docs /\ pending' = pending
                  ELSE /\ Len(pending') = Len(pending) + 1
                       /\ IsGeneratedId(pending'[Len(pending')].id)
                       /\ evt'.writeOk =>
                            RewritesCapturedLine(
                                WithoutTrailingSpaces(dragState.rawLineText)
                                    \o <<" ", "^">>
                                    \o pending'[Len(pending')].id)
       /\ (/\ evt'.type = "resume"
           /\ OutsideAll(Head(pending).clientX, Head(pending).clientY))
            => /\ nodes' = nodes
               /\ docs' = docs]_vars

\* A drop outside every canvas completed: the line carries the generated
\* anchor and no canvas has a node.
C8_Witness ==
    /\ evt.type = "resume"
    /\ OutsideAll(evt.clientX, evt.clientY)
    /\ docs[NoteA][1] = <<"-", " ", "a", " ", "^", "1", "-", "7">>
    /\ nodes = <<>>

C10_EveryExitCleansUp ==
    [][(/\ evt'.type \in {"mouseup", "unload"}
        /\ dragState.present
        /\ dragState.dragging)
          => /\ dragState.previewEl \notin DOMAIN body'
             /\ style'[dragState.sourceEl] = DefaultStyle]_vars

\* The plugin was unloaded while a session was dragging, and the dragged
\* line keeps the cursor and the selection style of the drag.
C10_Witness ==
    /\ evt.type = "unload"
    /\ evt.found = "dragging"
    /\ \E el \in DOMAIN style :
          style[el] = [cursor |-> "grabbing", userSelect |-> "none"]

\* The first canvas under the point lacks the coordinate-mapping API.
UnmappedCanvasUnder(x, y) ==
    /\ CanvasesUnder(x, y) # {}
    /\ ~MappingCanvasUnder(x, y)

\* A coordinate of the step's event is not finite.
NonFiniteEvent ==
    ~IsFinite(evt'.clientX) \/ ~IsFinite(evt'.clientY)

\* The step removes the session's preview, if it has one, from the page.
PreviewDetached ==
    (dragState.previewEl # NoPreview)
        => dragState.previewEl \notin DOMAIN body'

\* Squared distance of the step's pointer position from the press origin.
SquaredDistance ==
    (evt'.clientX - dragState.initialX) * (evt'.clientX - dragState.initialX)
    + (evt'.clientY - dragState.initialY) * (evt'.clientY - dragState.initialY)

\* C11: a drop on a canvas that lacks the coordinate-mapping API is
\* abandoned without partial mutation: neither the release nor its
\* continuation adds a node or changes a document.  The release writes the
\* anchor before the canvas is looked at.
C11_MissingCapabilityNoMutation ==
    [][/\ (/\ FinalizingRelease
           /\ UnmappedCanvasUnder(evt'.clientX, evt'.clientY))
            => /\ nodes' = nodes
               /\ docs' = docs
       /\ (/\ evt'.type = "resume"
           /\ UnmappedCanvasUnder(Head(pending).clientX,
                                  Head(pending).clientY))
            => /\ nodes' = nodes
               /\ docs' = docs]_vars

\* A drop on the canvas without the API completed: no node, and the line
\* of note A carries a new anchor.
C11_Witness ==
    /\ evt.type = "resume"
    /\ UnmappedCanvasUnder(evt.clientX, evt.clientY)
    /\ nodes = <<>>
    /\ docs[NoteA][1] = <<"-", " ", "a", " ", "^", "1", "-", "7">>

\* C12: non-finite pointer coordinates abort the step without mutation: a
\* press with the modifier creates no session and is not intercepted; a
\* move leaves the session, the page and the styles as they are; a release
\* while dragging ends the session and detaches its preview, and writes no
\* document, adds no node and starts no continuation.
C12_NonFiniteCoordinatesAbort ==
    [][/\ (evt'.type = "mousedown" /\ evt'.altKey /\ NonFiniteEvent)
            => /\ dragState' = dragState
               /\ style' = style
               /\ ~evt'.defaultPrevented
       /\ (evt'.type = "mousemove" /\ dragState.present /\ NonFiniteEvent)
            => /\ dragState' = dragState
               /\ body' = body
               /\ style' = style
               /\ ~evt'.defaultPrevented
       /\ (ReleaseWhileDragging /\ NonFiniteEvent)
            => /\ dragState' = NoDrag
               /\ PreviewDetached
               /\ docs' = docs
               /\ nodes' = nodes
               /\ pending' = pending]_vars

\* A session that was dragging was released at a non-finite position with
\* a Markdown file active: the session is gone, the page holds no preview
\* and no document has changed.
C12_Witness ==
    /\ evt.type = "mouseup"
    /\ evt.found = "dragging"
    /\ ~IsFinite(evt.clientX)
    /\ activeFile \in Notes
    /\ ~dragState.present
    /\ DOMAIN body = {}
    /\ docs = InitialDocs
    /\ nodes = <<>>

\* C13: a release finalizes only with an active file of the Markdown kind:
\* a release that writes a document, adds a node or starts a continuation
\* has one, and a release while dragging without one (no active file, or an
\* extension other than md) does none of these while it still ends the
\* session and detaches the preview.
C13_FinalizesOnlyWithMarkdownFile ==
    [][/\ (/\ evt'.type = "mouseup"
           /\ (docs' # docs \/ nodes' # nodes \/ pending' # pending))
            => /\ activeFile # NoFile
               /\ activeFile.extension = "md"
       /\ (/\ ReleaseWhileDragging
           /\ (activeFile = NoFile \/ activeFile.extension # "md"))
            => /\ docs' = docs
               /\ nodes' = nodes
               /\ pending' = pending
               /\ dragState' = NoDrag
               /\ PreviewDetached]_vars

\* A session that was dragging was released at a finite position over the
\* first canvas while the canvas file was the active file.
C13_Witness ==
    /\ evt.type = "mouseup"
    /\ evt.found = "dragging"
    /\ evt.clientX = 20
    /\ activeFile = Board
    /\ ~dragState.present
    /\ DOMAIN body = {}
    /\ docs = InitialDocs
    /\ nodes = <<>>
    /\ pending = <<>>

\* C17: in every reachable state at most one preview is attached to the
\* page, and one is attached exactly when a session exists and is dragging,
\* in which case it is that session's preview.  A press that arrives while
\* a session is dragging breaks this: the new session replaces the old one
\* without detaching its preview.
C17_PreviewIffDragging ==
    /\ Cardinality(DOMAIN body) <= 1
    /\ (DOMAIN body # {}) <=> (dragState.present /\ dragState.dragging)
    /\ (DOMAIN body # {}) => (DOMAIN body = {dragState.previewEl})

\* A preview is attached to the page although no session exists.
C17_Witness ==
    /\ ~dragState.present
    /\ DOMAIN body # {}

\* C18: every release handled while a session exists, armed or dragging and
\* whatever the finalization meets, ends the session, detaches its preview
\* and resets the cursor and the selection style of its source line; a
\* release without a session changes nothing.
C18_ReleaseAlwaysCleansUp ==
    [][/\ (evt'.type = "mouseup" /\ dragState.present)
            => /\ dragState' = NoDrag
               /\ PreviewDetached
               /\ style'[dragState.sourceEl] = DefaultStyle
       /\ (evt'.type = "mouseup" /\ ~dragState.present)
            => UNCHANGED <<phase, dragState, body, style, docs, activeFile,
                           cmAvailable, nodes, pending, gestures>>]_vars

\* A session that was dragging was released and the line write failed: no
\* session, no preview, every line with its default style.
C18_Witness ==
    /\ evt.type = "mouseup"
    /\ evt.found = "dragging"
    /\ ~evt.writeOk
    /\ ~dragState.present
    /\ DOMAIN body = {}
    /\ \A el \in DOMAIN style : style[el] = DefaultStyle

\* C19: a move of an armed session at finite coordinates starts the drag if
\* and only if the squared distance from the press origin is greater than
\* 25 (distance strictly greater than 5); a move at distance 5 or less
\* leaves the session and the page as they are and does not prevent the
\* event's default.
C19_ThresholdIsStrict ==
    [][(/\ evt'.type = "mousemove"
        /\ dragState.present
        /\ ~dragState.dragging
        /\ ~NonFiniteEvent)
          => /\ dragState'.dragging <=> (SquaredDistance > 25)
             /\ (SquaredDistance <= 25)
                  => /\ dragState' = dragState
                     /\ body' = body
                     /\ ~evt'.defaultPrevented
             /\ (SquaredDistance > 25)
                  => /\ dragState'.previewEl \in DOMAIN body'
                     /\ dragState'.previewEl \notin DOMAIN body
                     /\ evt'.defaultPrevented]_vars

\* An armed session received a move to a point exactly 5 away from its
\* origin and is still armed.
C19_Witness ==
    /\ evt.type = "mousemove"
    /\ evt.found = "armed"
    /\ dragState.present
    /\ ~dragState.dragging
    /\ (evt.clientX - dragState.initialX) * (evt.clientX - dragState.initialX)
       + (evt.clientY - dragState.initialY) * (evt.clientY - dragState.initialY)
       = 25

\* C20: within a session the dragging flag is set at most once and never
\* cleared: a session stops dragging only by ending or by being replaced at
\* a press.  A move of a dragging session keeps it dragging with the same
\* preview and attaches no other, at finite coordinates it puts the preview
\* at the pointer plus the offset, and no move changes the origin, the line
\* index, the captured text, the editor or the source line of the session.
C20_DraggingIsOneWay ==
    [][/\ (/\ dragState.present /\ dragState.dragging
           /\ dragState'.present /\ ~dragState'.dragging)
            => evt'.type = "mousedown"
       /\ (evt'.type = "mousemove" /\ dragState.present)
            => /\ dragState'.present
               /\ dragState'.initialX = dragState.initialX
               /\ dragState'.initialY = dragState.initialY
               /\ dragState'.lineNumber = dragState.lineNumber
               /\ dragState'.rawLineText = dragState.rawLineText
               /\ dragState'.editor = dragState.editor
               /\ dragState'.sourceEl = dragState.sourceEl
       /\ (evt'.type = "mousemove" /\ dragState.present /\ dragState.dragging)
            => /\ dragState' = dragState
               /\ DOMAIN body' = DOMAIN body
               /\ \A el \in DOMAIN body :
                     /\ body'[el].text = body[el].text
                     /\ (el # dragState.previewEl) => body'[el] = body[el]
               /\ ~NonFiniteEvent
                     => /\ body'[dragState.previewEl].left
                              = evt'.clientX + PreviewOffset
                        /\ body'[dragState.previewEl].top
                              = evt'.clientY + PreviewOffset]_vars

\* A dragging session was moved back to a point within the threshold of
\* its origin: it is still dragging, with its one preview at the pointer
\* plus the offset.
C20_Witness ==
    /\ evt.type = "mousemove"
    /\ evt.found = "dragging"
    /\ dragState.present
    /\ dragState.dragging
    /\ dragState.initialX = 0 /\ dragState.initialY = 0
    /\ evt.clientX = 3 /\ evt.clientY = 4
    /\ DOMAIN body = {dragState.previewEl}
    /\ body[dragState.previewEl].left = 13
    /\ body[dragState.previewEl].top = 14

\* The content of a bullet line: the line without leading whitespace, the
\* marker, the whitespace after the marker, and trailing whitespace.
BulletContent(line) ==
    LET marker == CHOOSE i \in 1..Len(line) :
                      line[i] = "-" /\ \A j \in 1..(i - 1) : line[j] = " "
        inked == {i \in (marker + 1)..Len(line) : line[i] # " "}
    IN IF inked = {} THEN <<>>
       ELSE SubSeq(line,
                   CHOOSE i \in inked : \A j \in inked : i <= j,
                   CHOOSE i \in inked : \A j \in inked : j <= i)

\* C14: the text shown in a preview is the bullet content unchanged when
\* the content has at most 30 characters; for a longer content it has
\* exactly 30 characters, the first 27 of the content followed by "...".
C14_PreviewTruncation ==
    [][(/\ evt'.type = "mousemove"
        /\ dragState.present /\ ~dragState.dragging
        /\ dragState'.dragging)
          => LET shown == body'[dragState'.previewEl].text
                 content == BulletContent(dragState.rawLineText)
             IN IF Len(content) <= 30
                THEN shown = content
                ELSE /\ Len(shown) = 30
                     /\ SubSeq(shown, 1, 27) = SubSeq(content, 1, 27)
                     /\ SubSeq(shown, 28, 30) = <<".", ".", ".">>]_vars

\* A preview shows a content of 31 characters cut to 30, ending in "...".
C14_Witness ==
    /\ dragState.present
    /\ dragState.dragging
    /\ Len(BulletContent(dragState.rawLineText)) = 31
    /\ Len(body[dragState.previewEl].text) = 30
    /\ body[dragState.previewEl].text[30] = "."
    /\ body[dragState.previewEl].text[27] # "."

\* The text of the line an element shows.
ShownText(el) == docs[CHOOSE f \in Notes : f.name = el[1]][el[2] + 1]

\* The step is a mouseover that carries the modifier and targets a line
\* whose text begins with the marker.
OverBulletWithModifier ==
    /\ evt'.type = "mouseover"
    /\ evt'.altKey
    /\ evt'.target # NoEl
    /\ BeginsWithMarker(ShownText(evt'.target))

\* C15: a mouseover with the modifier on a bullet line sets that line's
\* cursor to "grab" and nothing else; any other mouseover changes no style;
\* a mouseout from a line whose cursor is "grab" sets it to the default;
\* and a mouseover followed by the mouseout of the same line leaves the
\* line's cursor as it was before the mouseover (a "grab" that an earlier
\* mouseover left behind is not counted as the cursor before).  The last
\* part fails when a Drag Session has set the line's cursor.
C15_HoverAffordance ==
    [][/\ OverBulletWithModifier
            => style' = [style EXCEPT ![evt'.target].cursor = "grab"]
       /\ (evt'.type = "mouseover" /\ ~OverBulletWithModifier)
            => style' = style
       /\ (/\ evt'.type = "mouseout"
           /\ evt'.target # NoEl
           /\ style[evt'.target].cursor = "grab")
            => style' = [style EXCEPT ![evt'.target].cursor = ""]
       /\ (/\ evt.type = "mouseover"
           /\ evt'.type = "mouseout"
           /\ evt'.target # NoEl
           /\ evt'.target = evt.target
           /\ \/ evt.found # "grab"
              \/ dragState.present /\ dragState.sourceEl = evt.target)
            => style'[evt'.target].cursor = evt.found]_vars

\* A mouseout took the cursor from the source line of a session that is
\* dragging.
C15_Witness ==
    /\ evt.type = "mouseout"
    /\ evt.found = "grab"
    /\ dragState.present
    /\ dragState.dragging
    /\ evt.target = dragState.sourceEl
    /\ style[dragState.sourceEl].cursor = ""

\* The benign layout-notification text, word by word.
LayoutNotificationText ==
    <<"R", "e", "s", "i", "z", "e", "O", "b", "s", "e", "r", "v", "e", "r">>
    \o <<" ">> \o <<"l", "o", "o", "p">>
    \o <<" ">> \o <<"c", "o", "m", "p", "l", "e", "t", "e", "d">>
    \o <<" ">> \o <<"w", "i", "t", "h">>
    \o <<" ">> \o <<"u", "n", "d", "e", "l", "i", "v", "e", "r", "e", "d">>
    \o <<" ">> \o <<"n", "o", "t", "i", "f", "i", "c", "a", "t", "i", "o", "n", "s">>

\* The message holds the text at some position.
HoldsText(message, text) ==
    \E start \in 1..(Len(message) - Len(text) + 1) :
        \A j \in 1..Len(text) : message[start + j - 1] = text[j]

\* C16: the error observer stops the propagation of an error event if and
\* only if the event's message contains the benign layout-notification
\* text; it changes nothing of the plugin's state.
C16_SuppressesOnlyBenignError ==
    [][(evt'.type = "error")
          => /\ evt'.propagationStopped
                  <=> HoldsText(evt'.message, LayoutNotificationText)
             /\ ~evt'.defaultPrevented
             /\ UNCHANGED <<phase, dragState, body, style, docs, activeFile,
                            cmAvailable, nodes, pending, gestures>>]_vars

\* An error whose message holds the benign text inside a longer message
\* was stopped.
C16_Witness ==
    /\ evt.type = "error"
    /\ evt.propagationStopped
    /\ Len(evt.message) > Len(LayoutNotificationText)
    /\ HoldsText(evt.message, LayoutNotificationText)

\* C21: each release in Dragging attempts the line write at most once and
\* the node creation at most once, and nothing is retried.  The release
\* either queues one continuation or attempts the node itself, never both;
\* a line write that failed leaves the note as it was; the continuation
\* leaves the queue whether or not it created a node, writes no line, and
\* no step adds more than one node.
C21_AttemptsOnce ==
    [][/\ Len(nodes') <= Len(nodes) + 1
       /\ ReleaseWhileDragging
            => /\ Len(pending') + Len(nodes')
                    <= Len(pending) + Len(nodes) + 1
               /\ Len(pending') >= Len(pending)
               /\ ~evt'.writeOk => docs' = docs
       /\ evt'.type = "resume"
            => /\ pending' = Tail(pending)
               /\ docs' = docs
               /\ SubSeq(nodes', 1, Len(nodes)) = nodes
       /\ (pending' # pending)
            => \/ evt'.type = "resume"
               \/ /\ evt'.type = "mouseup"
                  /\ pending' = Append(pending, pending'[Len(pending')])]_vars

\* A drop whose line write failed and whose node creation failed has run
\* to its end: nothing is queued, the note is as it was and no node exists.
C21_Witness ==
    /\ evt.type = "resume"
    /\ ~evt.posOk
    /\ pending = <<>>
    /\ nodes = <<>>
    /\ docs = InitialDocs

\* The anchor ids the lines of the notes carry at their end, trailing
\* whitespace not counted.
AnchorsIn(d) ==
    {TrailingAnchor(WithoutTrailingSpaces(d[f][i])) :
        <<f, i>> \in {p \in Notes \X (1..2) :
                        /\ p[2] <= Len(d[p[1]])
                        /\ HasTrailingAnchor(
                               WithoutTrailingSpaces(d[p[1]][p[2]]))}}

\* The step appends a node to the canvas nodes.
NodeCreated ==
    /\ Len(nodes') = Len(nodes) + 1
    /\ SubSeq(nodes', 1, Len(nodes)) = nodes

\* C22: every canvas node a drop creates references an anchor id that is,
\* at the moment the node is created, the trailing anchor of a line of a
\* note: no node points at an anchor that was never written.
C22_NodeReferencesWrittenAnchor ==
    [][NodeCreated
          => \E f \in Notes : \E id \in AnchorsIn(docs') :
                nodes'[Len(nodes')].text = EmbedOf(f, id)]_vars

\* The continuation of a drop whose line write failed created a node: the
\* notes are as they were at the start and none of their lines carries the
\* id the node embeds.
C22_Witness ==
    /\ evt.type = "resume"
    /\ docs = InitialDocs
    /\ Len(nodes) = 1
    /\ nodes[1].text =
         <<"!", "[", "[", "A", "#", "^", "1", "-", "7", "]", "]">>

\* The anchor tokens of a text: a caret after whitespace, followed by an id
\* character.
AnchorTokens(text) ==
    {i \in 1..(Len(text) - 2) :
        /\ text[i] \in Whitespace
        /\ text[i + 1] = "^"
        /\ text[i + 2] \in WordOrDash}

\* C23: the lines of the notes, each of which starts with at most one
\* anchor token (possibly followed by trailing whitespace), carry at most
\* one anchor token after any sequence of press, move and release gestures.
C23_AtMostOneAnchorPerLine ==
    \A f \in Notes : \A i \in 1..Len(docs[f]) :
        Cardinality(AnchorTokens(docs[f][i])) <= 1

\* A drop of the line '- a ^k ', whose anchor is followed by a blank, wrote
\* a second anchor behind the first.
C23_Witness ==
    /\ evt.type = "mouseup"
    /\ evt.replaced = <<"-", " ", "a", " ", "^", "k", " ">>
    /\ docs[NoteA][1] =
         <<"-", " ", "a", " ", "^", "k", " ", "^", "1", "-", "7">>

\* C24: the document named in a node's reference is the document whose
\* line carries the anchor: at a release that finalizes, the active file,
\* whose name goes into the reference, is the document of the editor
\* captured at the press, to which the anchor is written.
C24_ReferenceNamesAnchoredDocument ==
    [][FinalizingRelease => activeFile = dragState.editor]_vars

\* A drop that began in note A and ended with note B active completed: the
\* anchor is on the line of A, the node embeds B, and B has no such anchor.
C24_Witness ==
    /\ evt.type = "resume"
    /\ docs[NoteA][1] = <<"-", " ", "a", " ", "^", "1", "-", "7">>
    /\ docs[NoteB] = InitialDocs[NoteB]
    /\ Len(nodes) = 1
    /\ nodes[1].text =
         <<"!", "[", "[", "B", "#", "^", "1", "-", "7", "]", "]">>

\* The text is the base followed by a blank, a caret and a generated id.
IsBaseWithAnchor(text, base) ==
    /\ Len(text) > Len(base) + 2
    /\ SubSeq(text, 1, Len(base)) = base
    /\ text[Len(base) + 1] = " "
    /\ text[Len(base) + 2] = "^"
    /\ IsGeneratedId(SubSeq(text, Len(base) + 3, Len(text)))

\* C25: the line write of a drop replaces exactly the line at the index
\* captured at the press with the text captured at the press, stripped of
\* trailing whitespace, followed by ' ^<id>'.  Every other line is
\* unchanged, and what the line holds at the release (text it acquired
\* since the press included) is replaced, not kept.  A finalizing release
\* of a line captured without an anchor performs the write when the editor
\* accepts it.
C25_WriteReplacesCapturedLine ==
    [][/\ (evt'.type = "mouseup" /\ docs' # docs)
            => /\ ReleaseWhileDragging
               /\ RewritesCapturedLine(
                      docs'[dragState.editor][dragState.lineNumber + 1])
               /\ IsBaseWithAnchor(
                      docs'[dragState.editor][dragState.lineNumber + 1],
                      WithoutTrailingSpaces(dragState.rawLineText))
               /\ evt'.replaced =
                      docs[dragState.editor][dragState.lineNumber + 1]
       /\ (/\ FinalizingRelease
           /\ ~HasTrailingAnchor(dragState.rawLineText)
           /\ evt'.writeOk)
            => docs' # docs]_vars

\* The line '- a' was captured at the press and retyped to '- c ^k ' before
\* the release; the write replaced the retyped text with '- a ^1-7'.
C25_Witness ==
    /\ evt.type = "mouseup"
    /\ evt.replaced = <<"-", " ", "c", " ", "^", "k", " ">>
    /\ docs[NoteA] = << <<"-", " ", "a", " ", "^", "1", "-", "7">>, <<"x">> >>

\* The step calls addCanvasNode: the continuation of a release, or a
\* finalizing release of a line captured with its anchor.
AttemptsNode ==
    \/ evt'.type = "resume"
    \/ FinalizingRelease /\ HasTrailingAnchor(dragState.rawLineText)

\* The first canvas, in enumeration order, under a point that is under one.
FirstCanvasUnder(x, y) ==
    CHOOSE i \in CanvasesUnder(x, y) : \A j \in CanvasesUnder(x, y) : i <= j

\* C26: a drop creates its node on the first open canvas, in enumeration
\* order, whose bounding box contains the drop point, edges included.  A
\* node is created only by a step that calls addCanvasNode and only on that
\* first canvas, one node at most however many canvases contain the point;
\* the node is created when that canvas maps the coordinates; no node is
\* created when no canvas contains the point.
C26_NodeOnFirstCanvasUnderPoint ==
    [][/\ (nodes' # nodes) => (AttemptsNode /\ NodeCreated)
       /\ AttemptsNode
            => /\ NodeCreated
                    => /\ CanvasesUnder(evt'.clientX, evt'.clientY) # {}
                       /\ nodes'[Len(nodes')].canvas =
                            FirstCanvasUnder(evt'.clientX, evt'.clientY)
               /\ (/\ MappingCanvasUnder(evt'.clientX, evt'.clientY)
                   /\ evt'.posOk)
                    => NodeCreated
               /\ OutsideAll(evt'.clientX, evt'.clientY)
                    => nodes' = nodes]_vars

\* A drop at (20,4), on the right edge of the first canvas and the left
\* edge of the second, created its one node on the first.
C26_Witness ==
    /\ evt.type = "resume"
    /\ evt.clientX = 20
    /\ Cardinality(CanvasesUnder(evt.clientX, evt.clientY)) = 2
    /\ Len(nodes) = 1
    /\ nodes[1].canvas = 1

\* The position inside a canvas that the canvas's mapping gives a screen
\* point: the offset from the corner of the view, shifted by the pan.
CanvasLocal(c, x, y) ==
    [x |-> x - CanvasLeaves[c].rect.left + CanvasLeaves[c].panX,
     y |-> y - CanvasLeaves[c].rect.top + CanvasLeaves[c].panY]

\* C27: the position of a created node is the canvas-local position that
\* the canvas's mapping returned for the drop event, never the screen
\* coordinates of the event; when the mapping yields a non-finite
\* coordinate no node is created.
C27_NodeAtCanvasLocalPosition ==
    [][AttemptsNode
          => /\ NodeCreated
                  => /\ evt'.posOk
                     /\ nodes'[Len(nodes')].pos =
                          CanvasLocal(nodes'[Len(nodes')].canvas,
                                      evt'.clientX, evt'.clientY)
                     /\ nodes'[Len(nodes')].pos # [x |-> evt'.clientX,
                                                  y |-> evt'.clientY]
                     /\ IsFinite(nodes'[Len(nodes')].pos.x)
                     /\ IsFinite(nodes'[Len(nodes')].pos.y)
             /\ ~evt'.posOk => nodes' = nodes]_vars

\* A drop at the screen point (20,4) created a node at (110,204), the
\* position inside the first canvas.
C27_Witness ==
    /\ evt.type = "resume"
    /\ evt.posOk
    /\ evt.clientX = 20 /\ evt.clientY = 4
    /\ Len(nodes) = 1
    /\ nodes[1].pos = [x |-> 110, y |-> 204]

\* The press fails a qualification step: no modifier, a non-finite
\* coordinate, no active Markdown editor, no position-mapping API, a
\* position outside the content, a line that is no bullet, or no line
\* element under the pointer.
FailsQualification ==
    \/ ~evt'.altKey
    \/ NonFiniteEvent
    \/ activeFile \notin Notes
    \/ ~cmAvailable
    \/ ~OverLine(evt'.clientX, evt'.clientY)
    \/ ~BeginsWithMarker(PointedText(evt'.clientX, evt'.clientY))
    \/ evt'.target = NoEl

\* The step creates a Drag Session: a new armed session at the event's
\* position.
CreatesSession ==
    /\ gestures' = gestures + 1
    /\ dragState'.present
    /\ ~dragState'.dragging
    /\ dragState'.initialX = evt'.clientX
    /\ dragState'.initialY = evt'.clientY

\* C28: a press is intercepted (default prevented and propagation stopped)
\* if and only if it creates a Drag Session.  A press that fails any
\* qualification step creates none, passes through with its default action
\* and its propagation, and leaves the session, the styles, the page and
\* the notes exactly as they were; a press that fails none creates one.
C28_InterceptedIffSessionCreated ==
    [][evt'.type = "mousedown"
          => /\ (evt'.defaultPrevented /\ evt'.propagationStopped)
                    <=> CreatesSession
             /\ evt'.defaultPrevented <=> evt'.propagationStopped
             /\ FailsQualification <=> ~CreatesSession
             /\ ~CreatesSession
                    => /\ dragState' = dragState
                       /\ style' = style
                       /\ body' = body
                       /\ docs' = docs]_vars

\* A press with the modifier on a bullet line, with no line element under
\* the pointer, passed through while a session was dragging.
C28_Witness ==
    /\ evt.type = "mousedown"
    /\ evt.altKey
    /\ cmAvailable
    /\ OverLine(evt.clientX, evt.clientY)
    /\ BeginsWithMarker(PointedText(evt.clientX, evt.clientY))
    /\ evt.target = NoEl
    /\ ~evt.defaultPrevented
    /\ dragState.present
    /\ dragState.dragging
    /\ gestures < MaxGestures

\* C29: the modifier is consulted at the press only.  Whatever the state of
\* the modifier, a finite move of an armed session beyond the threshold
\* starts the drag, a finite move of a dragging session puts the preview at
\* the pointer, and a release ends the session, detaches its preview and,
\* when it finalizes, writes the anchor or attempts the node: a drag begun
\* with the modifier completes its drop after the modifier is released.
C29_ModifierOnlyAtPress ==
    [][/\ (/\ evt'.type = "mousemove"
           /\ dragState.present
           /\ ~NonFiniteEvent)
            => /\ dragState'.dragging
                    <=> (dragState.dragging \/ SquaredDistance > 25)
               /\ dragState'.dragging
                    => /\ dragState'.previewEl \in DOMAIN body'
                       /\ body'[dragState'.previewEl].left
                             = evt'.clientX + PreviewOffset
                       /\ body'[dragState'.previewEl].top
                             = evt'.clientY + PreviewOffset
       /\ (evt'.type = "mouseup" /\ dragState.present)
            => /\ dragState' = NoDrag
               /\ dragState.previewEl \notin DOMAIN body'
       /\ (FinalizingRelease /\ ~HasTrailingAnchor(dragState.rawLineText))
            => /\ Len(pending') = Len(pending) + 1
               /\ evt'.writeOk => docs' # docs
       /\ (/\ FinalizingRelease
           /\ HasTrailingAnchor(dragState.rawLineText)
           /\ MappingCanvasUnder(evt'.clientX, evt'.clientY)
           /\ evt'.posOk)
            => NodeCreated]_vars

\* A session was pressed with the modifier, dragged and released without
\* it: the release found the session dragging and started the finalization.
C29_Witness ==
    /\ evt.type = "mouseup"
    /\ ~evt.altKey
    /\ evt.found = "dragging"
    /\ ~dragState.present
    /\ body = <<>>
    /\ pending # <<>>
    /\ docs[NoteA][1] = <<"-", " ", "a", " ", "^", "1", "-", "7">>

\* The event types of the listeners the plugin registers.
HandledTypes ==
    {"mousedown", "mousemove", "mouseup", "mouseover", "mouseout", "error"}

\* C30: registration is symmetric: teardown removes every listener that
\* initialization registered, naming the same target, event type, capture
\* flag and handler, so that none is left after it.  After teardown no
\* handler of the plugin runs: no event creates or changes a Drag Session,
\* attaches a preview or starts a finalization.
C30_SymmetricRegistration ==
    [][/\ removedListeners = addedListeners
       /\ phase' = "unloaded" => listeners(phase') = {}
       /\ phase = "unloaded"
            => /\ evt'.type \notin HandledTypes
               /\ dragState' = dragState
               /\ body' = body
               /\ style' = style
               /\ gestures' = gestures
               /\ Len(pending') <= Len(pending)]_vars

\* After a gesture and the teardown the host went on: note A is active
\* again, where a press with the modifier on its first line would create a
\* session if the press listener were still registered.
C30_Witness ==
    /\ phase = "unloaded"
    /\ evt.type = "switch"
    /\ activeFile = NoteA
    /\ cmAvailable
    /\ gestures = 1
    /\ ~dragState.present

\* A session that a press created after the release whose finalization is
\* at the head of the queue.
NewSessionInFlight ==
    /\ pending # <<>>
    /\ dragState.present
    /\ gestures > Head(pending).gesture

\* C31: in the file-scanning variant a Drag Session created by a qualifying
\* press while the file rewrite of an earlier drop is in flight survives
\* until its own release: the steps that resume the earlier finalization
\* neither clear nor alter it.
C31_NewSessionSurvivesResumption ==
    [][(evt'.type \in {"filewrite", "resume"} /\ NewSessionInFlight)
          => /\ dragState' = dragState
             /\ style' = style]_vars

\* The finalization of the first drop resumed while the session of the
\* second press was armed, and no session is left.
C31_Witness ==
    /\ evt.type = "resume"
    /\ evt.found = "armed"
    /\ gestures = 2
    /\ ~dragState.present

\* The line begins with the text and the text is not followed, on the
\* line, by an anchor token: whitespace, if any, and a caret.
BeginsWithUnanchored(line, text) ==
    /\ Len(line) >= Len(text)
    /\ SubSeq(line, 1, Len(text)) = text
    /\ ~\E j \in (Len(text) + 1)..Len(line) :
          /\ line[j] = "^"
          /\ \A m \in (Len(text) + 1)..(j - 1) : line[m] \in Whitespace

\* The lines of a file that updateBulletInFile may rewrite for a text.
ScanCandidates(lines, text) ==
    {i \in 1..Len(lines) : BeginsWithUnanchored(lines[i], text)}

\* The line with ' ^<id>' inserted after the text it begins with.
WithAnchorAfter(line, text, id) ==
    text \o <<" ", "^">> \o id \o SubSeq(line, Len(text) + 1, Len(line))

\* C32: updateBulletInFile rewrites the file only when some line begins
\* with the captured text not already followed by an anchor token; it then
\* changes exactly one line, the first such line of the file, by inserting
\* ' ^<id>' after the matched text; when there is no such line the file is
\* not modified.
C32_RewritesFirstUnanchoredLine ==
    [][evt'.type = "filewrite"
          => LET k == Head(pending)
                 lines == docs[k.file]
                 found == ScanCandidates(lines, k.text)
                 first == CHOOSE i \in found : \A j \in found : i <= j
             IN /\ (found = {}) => docs' = docs
                /\ (docs' # docs)
                     => /\ found # {}
                        /\ docs' = [docs EXCEPT ![k.file][first] =
                                      WithAnchorAfter(lines[first], k.text,
                                                      k.id)]]_vars

\* The drop of the first line of the file '- a', '^k', '- a' left the first
\* line as it was and wrote the anchor on the third.
C32_Witness ==
    /\ evt.type = "filewrite"
    /\ docs[NoteA] = << <<"-", " ", "a">>, <<"^", "k">>,
                        <<"-", " ", "a", " ", "^", "1", "-", "7">> >>

====
